---- MODULE Spec2Model ----
(***************************************************************************)
(* HolDis: the InvoiceEscrow registry (Contract/contracts/Holdis.sol), the *)
(* chain's event log, and the backend's event-driven reconciliation        *)
(* engine (EventListenerService) with the custody gateway it drives        *)
(* (BlockradarService, GasManagerService).                                 *)
(*                                                                         *)
(* Amounts are integers in the token's smallest unit.  A transaction of   *)
(* the registry is executed into the block being built, number             *)
(* blockNumber + 1; mineBlock closes that block, and only then do its logs *)
(* reach getLogs and the watchers.  block.timestamp is the block number.   *)
(***************************************************************************)
EXTENDS Integers, Sequences, FiniteSets, Bags, TLC

\* ------------------------------------------------------------------ bounds
\* number of invoices that may be created
MaxInvoices == 1
\* height of the chain
MaxBlock == 2
\* number of times the listener may be started
MaxStarts == 1

\* ------------------------------------------------------- program constants
\* initialize(): platformFee 250 basis points
DefaultPlatformFee == 250
\* updatePlatformSettings(): require(platformFee <= 1000)
MaxPlatformFee == 1000
\* fee denominator (basis points)
BasisPoints == 10000

\* ------------------------------------------------------------ input sets
NativeToken == "0x0"
UsdcToken == "0xUSDC"
Tokens == {NativeToken, UsdcToken}
PlatformWallet == "platform"
Accounts == {"admin", "issuer", "payer", "receiver"}
\* invoice amounts offered to createInvoice
Amounts == {1000}
\* a payment smaller than every invoice amount
PartialAmount == 400
\* platform fees offered to updatePlatformSettings (33 makes the fee round
\* down, 1001 is rejected)
FeeChoices == {33, 1001}

VARIABLES
    \* --- InvoiceEscrow storage
    agreements,        \* mapping(uint256 => Agreement), ids 1.._nextInvoiceId-1
    disputes,          \* mapping(uint256 => Dispute), ids 1.._nextDisputeId-1
    invoiceToDispute,  \* mapping(uint256 => uint256)
    platformFee,       \* platformSettings.platformFee
    supportedTokens,   \* mapping(address => bool), as the set of supported tokens
    paused,            \* PausableUpgradeable
    issuerInvoices,    \* _issuerInvoices: mapping(address => uint256[])
    payerInvoices,     \* _payerInvoices
    receiverInvoices,  \* _receiverInvoices
    \* --- the chain
    blockNumber,       \* height of the chain
    logs,              \* the event log, in (blockNumber, logIndex) order
    \* --- the custody provider (Blockradar)
    transfers,         \* bag of the transfer requests the provider answered
    \* --- BlockradarService, as far as it records custody (it logs)
    custodyLog,        \* bag of [invoiceId, status]: held / released / refunded
    \* --- EventListenerService
    isListening,
    lastProcessedBlock,
    watchers,          \* one entry per successful start(): block and event watchers
    scans,             \* the invocations of processBlockEvents in progress
    calls,             \* the invocations of the event handlers in progress
    \* --- BlockradarService.pollTransactionStatus
    poll,              \* the invocation in progress, or its result
    \* --- WebhookController
    webhook,           \* the request being answered, or its answer
    \* --- a caller of the list getters of InvoiceEscrow
    page               \* the last call and what it returned

\* the invoice lists of the parties
indexVars == <<issuerInvoices, payerInvoices, receiverInvoices>>
contractVars == <<agreements, disputes, invoiceToDispute, platformFee, supportedTokens,
                  paused, issuerInvoices, payerInvoices, receiverInvoices>>
registryVars == <<agreements, disputes, invoiceToDispute, platformFee, supportedTokens,
                  paused, issuerInvoices, payerInvoices, receiverInvoices,
                  blockNumber, logs>>
\* handler invocations, status poll, webhook request and list query
requestVars == <<calls, poll, webhook, page>>
backendVars == <<transfers, custodyLog, isListening, lastProcessedBlock, watchers, scans,
                 calls, poll, webhook, page>>

\* ------------------------------------------------------------ InvoiceEscrow
InvoiceStatus ==
    {"Draft", "Pending", "PartiallyPaid", "Funded", "Delivered", "Disputed",
     "Completed", "Refunded", "Cancelled", "Expired"}

DisputeStatus ==
    {"None", "Raised", "UnderReview", "ResolvedForIssuer", "ResolvedForPayer", "Cancelled"}

\* initialize(admin) grants every role to admin
hasRole(role, account) == account = "admin"

invoiceExists(invoiceId) == invoiceId > 0 /\ invoiceId < Len(agreements) + 1

\* the list createInvoice has pushed to for each account in this role, when
\* the invoices were created one after the other
Listed(role) ==
    [account \in Accounts |->
        SelectSeq([invoiceId \in 1..Len(agreements) |-> invoiceId],
                  LAMBDA invoiceId : agreements[invoiceId][role] = account)]

\* the fee if the division rounded up
calculatePlatformFeeRoundedUp(amount, feeInBasisPoints) ==
    (amount * feeInBasisPoints + BasisPoints - 1) \div BasisPoints

\* (amount * feeInBasisPoints) / 10000, rounded down
calculatePlatformFee(amount, feeInBasisPoints) == (amount * feeInBasisPoints) \div BasisPoints

\* a log entry of one of the six event kinds the backend subscribes to,
\* emitted by the transaction being executed; offset counts the entries the
\* transaction emitted before it
Log(eventName, invoiceId, offset, fee) ==
    [eventName |-> eventName, invoiceId |-> invoiceId, blockNumber |-> blockNumber + 1,
     logIndex |-> Len(SelectSeq(logs, LAMBDA log : log.blockNumber = blockNumber + 1))
                    + offset,
     platformFeeCollected |-> fee]

\* the transaction is executed into the block being built
Mined(events) ==
    /\ blockNumber < MaxBlock
    /\ logs' = logs \o events
    /\ UNCHANGED blockNumber

\* the block being built is closed and becomes the head of the chain
mineBlock ==
    /\ blockNumber < MaxBlock
    /\ blockNumber' = blockNumber + 1
    /\ UNCHANGED logs

createInvoice(sender, payer, receiver, amount, token, allowPartialPayment) ==
    /\ ~paused
    /\ token \in supportedTokens
    /\ amount \in Amounts
    /\ LET invoiceId == Len(agreements) + 1
       IN /\ agreements' = Append(agreements,
                [issuer |-> sender, payer |-> payer, receiver |-> receiver,
                 totalAmount |-> amount, paidAmount |-> 0, tokenAddress |-> token,
                 status |-> "Pending", allowPartialPayment |-> allowPartialPayment,
                 minimumPartialAmount |-> PartialAmount, fundedAt |-> 0])
          /\ issuerInvoices' = [issuerInvoices EXCEPT ![sender] = Append(@, invoiceId)]
          /\ payerInvoices' = [payerInvoices EXCEPT ![payer] = Append(@, invoiceId)]
          /\ receiverInvoices' = [receiverInvoices EXCEPT ![receiver] = Append(@, invoiceId)]
          /\ Mined(<<Log("InvoiceCreated", invoiceId, 0, 0)>>)
    /\ UNCHANGED <<disputes, invoiceToDispute, platformFee, supportedTokens, paused>>

\* markAsFunded without require(paidAmount + amount <= totalAmount)
markAsFundedBeyondTotal(sender, invoiceId, amount) ==
    /\ ~paused
    /\ invoiceExists(invoiceId)
    /\ LET agreement == agreements[invoiceId]
           paid == agreement.paidAmount + amount
       IN /\ agreement.payer = sender
          /\ agreement.status \in {"Pending", "PartiallyPaid"}
          /\ amount > 0
          /\ amount < agreement.totalAmount - agreement.paidAmount =>
                /\ agreement.allowPartialPayment
                /\ amount >= agreement.minimumPartialAmount
          /\ IF paid >= agreement.totalAmount
                THEN /\ agreements' = [agreements EXCEPT ![invoiceId] =
                            [@ EXCEPT !.paidAmount = paid, !.status = "Funded",
                                      !.fundedAt = blockNumber + 1]]
                     /\ Mined(<<Log("InvoiceFunded", invoiceId, 0, 0)>>)
                ELSE /\ agreements' = [agreements EXCEPT ![invoiceId] =
                            [@ EXCEPT !.paidAmount = paid, !.status = "PartiallyPaid"]]
                     /\ Mined(<<>>)
    /\ UNCHANGED <<disputes, invoiceToDispute, platformFee, supportedTokens,
                 paused, indexVars>>

markAsFunded(sender, invoiceId, amount) ==
    /\ ~paused
    /\ invoiceExists(invoiceId)
    /\ LET agreement == agreements[invoiceId]
           paid == agreement.paidAmount + amount
       IN /\ agreement.payer = sender
          /\ agreement.status \in {"Pending", "PartiallyPaid"}
          /\ amount > 0
          /\ paid <= agreement.totalAmount
          /\ amount < agreement.totalAmount - agreement.paidAmount =>
                /\ agreement.allowPartialPayment
                /\ amount >= agreement.minimumPartialAmount
          /\ IF paid >= agreement.totalAmount
                THEN /\ agreements' = [agreements EXCEPT ![invoiceId] =
                            [@ EXCEPT !.paidAmount = paid, !.status = "Funded",
                                      !.fundedAt = blockNumber + 1]]
                     /\ Mined(<<Log("InvoiceFunded", invoiceId, 0, 0)>>)
                ELSE /\ agreements' = [agreements EXCEPT ![invoiceId] =
                            [@ EXCEPT !.paidAmount = paid, !.status = "PartiallyPaid"]]
                     /\ Mined(<<>>)
    /\ UNCHANGED <<disputes, invoiceToDispute, platformFee, supportedTokens,
                 paused, indexVars>>

\* submitDelivery without inStatus(invoiceId, InvoiceStatus.Funded)
submitDeliveryAnyStatus(sender, invoiceId) ==
    /\ ~paused
    /\ invoiceExists(invoiceId)
    /\ agreements[invoiceId].issuer = sender
    /\ agreements' = [agreements EXCEPT ![invoiceId].status = "Delivered"]
    /\ Mined(<<Log("DeliverySubmitted", invoiceId, 0, 0)>>)
    /\ UNCHANGED <<disputes, invoiceToDispute, platformFee, supportedTokens,
                 paused, indexVars>>

submitDelivery(sender, invoiceId) ==
    /\ ~paused
    /\ invoiceExists(invoiceId)
    /\ agreements[invoiceId].status = "Funded"
    /\ agreements[invoiceId].issuer = sender
    /\ agreements' = [agreements EXCEPT ![invoiceId].status = "Delivered"]
    /\ Mined(<<Log("DeliverySubmitted", invoiceId, 0, 0)>>)
    /\ UNCHANGED <<disputes, invoiceToDispute, platformFee, supportedTokens,
                 paused, indexVars>>

\* confirmDelivery without onlyReceiver(invoiceId)
confirmDeliveryAnySender(sender, invoiceId) ==
    /\ ~paused
    /\ invoiceExists(invoiceId)
    /\ agreements[invoiceId].status = "Delivered"
    /\ agreements' = [agreements EXCEPT ![invoiceId].status = "Completed"]
    /\ Mined(<<Log("DeliveryConfirmed", invoiceId, 0, 0),
               Log("InvoiceCompleted", invoiceId, 1,
                   calculatePlatformFee(agreements[invoiceId].totalAmount, platformFee))>>)
    /\ UNCHANGED <<disputes, invoiceToDispute, platformFee, supportedTokens,
                 paused, indexVars>>

\* (autoCompleteInvoice emits the same InvoiceCompleted for a Delivered
\* invoice once autoCompleteTimeout has passed: 30 days as deployed, which
\* have not passed on a chain of MaxBlock blocks)
confirmDelivery(sender, invoiceId) ==
    /\ ~paused
    /\ invoiceExists(invoiceId)
    /\ agreements[invoiceId].status = "Delivered"
    /\ agreements[invoiceId].receiver = sender
    /\ agreements' = [agreements EXCEPT ![invoiceId].status = "Completed"]
    /\ Mined(<<Log("DeliveryConfirmed", invoiceId, 0, 0),
               Log("InvoiceCompleted", invoiceId, 1,
                   calculatePlatformFee(agreements[invoiceId].totalAmount, platformFee))>>)
    /\ UNCHANGED <<disputes, invoiceToDispute, platformFee, supportedTokens,
                 paused, indexVars>>

\* autoCompleteInvoice without inStatus(invoiceId, InvoiceStatus.Delivered)
autoCompleteInvoiceAnyStatus(sender, invoiceId) ==
    /\ ~paused
    /\ invoiceExists(invoiceId)
    /\ hasRole("OPERATOR_ROLE", sender)
    /\ agreements' = [agreements EXCEPT ![invoiceId].status = "Completed"]
    /\ Mined(<<Log("InvoiceCompleted", invoiceId, 0,
                   calculatePlatformFee(agreements[invoiceId].totalAmount, platformFee))>>)
    /\ UNCHANGED <<disputes, invoiceToDispute, platformFee, supportedTokens,
                 paused, indexVars>>

\* autoCompleteInvoice, for the operator, once
\* block.timestamp >= deliveredAt + autoCompleteTimeout; the administrator
\* sets the timeout through updatePlatformSettings, which puts no lower limit
\* on it, and with a timeout of 0 the call succeeds in the block of the
\* delivery
autoCompleteInvoice(sender, invoiceId) ==
    /\ ~paused
    /\ invoiceExists(invoiceId)
    /\ agreements[invoiceId].status = "Delivered"
    /\ hasRole("OPERATOR_ROLE", sender)
    /\ agreements' = [agreements EXCEPT ![invoiceId].status = "Completed"]
    /\ Mined(<<Log("InvoiceCompleted", invoiceId, 0,
                   calculatePlatformFee(agreements[invoiceId].totalAmount, platformFee))>>)
    /\ UNCHANGED <<disputes, invoiceToDispute, platformFee, supportedTokens,
                 paused, indexVars>>

\* raiseDispute without whenNotPaused
raiseDisputeWhilePaused(sender, invoiceId) ==
    /\ invoiceExists(invoiceId)
    /\ LET agreement == agreements[invoiceId]
       IN /\ sender \in {agreement.issuer, agreement.payer, agreement.receiver}
          /\ agreement.status \in {"Funded", "Delivered"}
    /\ invoiceToDispute[invoiceId] = 0
    /\ disputes' = Append(disputes,
            [invoiceId |-> invoiceId, status |-> "Raised", refundAmount |-> 0])
    /\ invoiceToDispute' = [invoiceToDispute EXCEPT ![invoiceId] = Len(disputes) + 1]
    /\ agreements' = [agreements EXCEPT ![invoiceId].status = "Disputed"]
    /\ Mined(<<>>)
    /\ UNCHANGED <<platformFee, supportedTokens,
                 paused, indexVars>>

raiseDispute(sender, invoiceId) ==
    /\ ~paused
    /\ invoiceExists(invoiceId)
    /\ LET agreement == agreements[invoiceId]
       IN /\ sender \in {agreement.issuer, agreement.payer, agreement.receiver}
          /\ agreement.status \in {"Funded", "Delivered"}
    /\ invoiceToDispute[invoiceId] = 0
    /\ disputes' = Append(disputes,
            [invoiceId |-> invoiceId, status |-> "Raised", refundAmount |-> 0])
    /\ invoiceToDispute' = [invoiceToDispute EXCEPT ![invoiceId] = Len(disputes) + 1]
    /\ agreements' = [agreements EXCEPT ![invoiceId].status = "Disputed"]
    /\ Mined(<<>>)
    /\ UNCHANGED <<platformFee, supportedTokens,
                 paused, indexVars>>

resolveDispute(sender, disputeId, resolution, refundAmount) ==
    /\ ~paused
    /\ hasRole("ARBITER_ROLE", sender)
    /\ disputeId \in 1..Len(disputes)
    /\ disputes[disputeId].status \in {"Raised", "UnderReview"}
    /\ LET invoiceId == disputes[disputeId].invoiceId
           agreement == agreements[invoiceId]
       IN /\ refundAmount <= agreement.paidAmount
          /\ disputes' = [disputes EXCEPT ![disputeId] =
                [@ EXCEPT !.status = resolution, !.refundAmount = refundAmount]]
          /\ agreements' = [agreements EXCEPT ![invoiceId] =
                IF resolution = "ResolvedForPayer"
                    THEN [@ EXCEPT !.status = IF refundAmount = agreement.paidAmount
                                                  THEN "Refunded" ELSE "PartiallyPaid",
                                   !.paidAmount = agreement.paidAmount - refundAmount]
                    ELSE IF resolution = "ResolvedForIssuer"
                        THEN [@ EXCEPT !.status = "Completed"]
                        ELSE [@ EXCEPT !.status = "Cancelled"]]
    /\ Mined(<<>>)
    /\ UNCHANGED <<invoiceToDispute, platformFee, supportedTokens,
                 paused, indexVars>>

\* cancelInvoice without its check of the status
cancelInvoiceAnyStatus(sender, invoiceId) ==
    /\ ~paused
    /\ invoiceExists(invoiceId)
    /\ LET agreement == agreements[invoiceId]
       IN \/ sender = agreement.issuer
          \/ sender = agreement.payer
          \/ hasRole("ADMIN_ROLE", sender)
    /\ agreements' = [agreements EXCEPT ![invoiceId].status = "Cancelled"]
    /\ Mined(<<Log("InvoiceCancelled", invoiceId, 0, 0)>>)
    /\ UNCHANGED <<disputes, invoiceToDispute, platformFee, supportedTokens,
                 paused, indexVars>>

cancelInvoice(sender, invoiceId) ==
    /\ ~paused
    /\ invoiceExists(invoiceId)
    /\ LET agreement == agreements[invoiceId]
       IN /\ \/ sender = agreement.issuer
             \/ sender = agreement.payer
             \/ hasRole("ADMIN_ROLE", sender)
          /\ \/ agreement.status = "Pending"
             \/ agreement.status = "Draft"
             \/ agreement.status = "PartiallyPaid" /\ sender = agreement.payer
    /\ agreements' = [agreements EXCEPT ![invoiceId].status = "Cancelled"]
    /\ Mined(<<Log("InvoiceCancelled", invoiceId, 0, 0)>>)
    /\ UNCHANGED <<disputes, invoiceToDispute, platformFee, supportedTokens,
                 paused, indexVars>>

updatePlatformSettings(sender, fee) ==
    /\ hasRole("ADMIN_ROLE", sender)
    /\ fee <= MaxPlatformFee
    /\ platformFee' = fee
    /\ Mined(<<>>)
    /\ UNCHANGED <<agreements, disputes, invoiceToDispute, supportedTokens,
                 paused, indexVars>>

setSupportedToken(sender, token, supported) ==
    /\ hasRole("ADMIN_ROLE", sender)
    /\ supportedTokens' = IF supported THEN supportedTokens \cup {token}
                                       ELSE supportedTokens \ {token}
    /\ Mined(<<>>)
    /\ UNCHANGED <<agreements, disputes, invoiceToDispute, platformFee,
                 paused, indexVars>>

\* pause(): _pause() requires that the contract is not paused
pause(sender) ==
    /\ hasRole("ADMIN_ROLE", sender)
    /\ ~paused
    /\ paused' = TRUE
    /\ Mined(<<>>)
    /\ UNCHANGED <<agreements, disputes, invoiceToDispute, platformFee, supportedTokens,
                 indexVars>>

\* unpause(): _unpause() requires that it is
unpause(sender) ==
    /\ hasRole("ADMIN_ROLE", sender)
    /\ paused
    /\ paused' = FALSE
    /\ Mined(<<>>)
    /\ UNCHANGED <<agreements, disputes, invoiceToDispute, platformFee, supportedTokens,
                 indexVars>>

\* ---------------------------------------------------------- the chain reader
\* ContractService.getLogs(eventName, fromBlock, toBlock)
getLogs(eventName, fromBlock, toBlock) ==
    SelectSeq(logs, LAMBDA log : /\ log.eventName = eventName
                                 /\ log.blockNumber >= fromBlock
                                 /\ log.blockNumber <= toBlock)

\* ContractService.getInvoice(invoiceId): the invoice as the chain holds it now
getInvoice(invoiceId) ==
    LET agreement == agreements[invoiceId]
    IN [payer |-> agreement.payer, receiver |-> agreement.receiver,
        amount |-> agreement.totalAmount, tokenAddress |-> agreement.tokenAddress,
        status |-> agreement.status, fundedAt |-> agreement.fundedAt]

\* ------------------------------------------------------- the custody gateway
\* A balance is the decimal string the provider answers: "whole" when
\* hundredths = 0, "whole.hundredths" otherwise.
Balance(whole, hundredths) == [whole |-> whole, hundredths |-> hundredths]

\* the answers getWalletBalance() is made to give
WalletBalances ==
    { \* enough of everything, in smallest units
      [nativeBalance |-> Balance(2000, 0),
       tokens |-> {[token |-> UsdcToken, balance |-> Balance(2000, 0)]}],
      \* a native balance of 0.01: not above the gas minimum
      [nativeBalance |-> Balance(0, 1),
       tokens |-> {[token |-> UsdcToken, balance |-> Balance(2000, 0)]}],
      \* a native balance given as a decimal number of coins
      [nativeBalance |-> Balance(0, 50),
       tokens |-> {[token |-> UsdcToken, balance |-> Balance(2000, 0)]}],
      \* less than the invoice amount, and no token balance
      [nativeBalance |-> Balance(500, 0), tokens |-> {}],
      \* enough native balance, less than the invoice amount in the token
      [nativeBalance |-> Balance(2000, 0),
       tokens |-> {[token |-> UsdcToken, balance |-> Balance(500, 0)]}] }

\* parseFloat(s), in hundredths
parseFloatHundredths(s) == s.whole * 100 + s.hundredths

\* BigInt(s) throws a SyntaxError unless s is an integer literal
BigIntParses(s) == s.hundredths = 0
BigInt(s) == s.whole

\* GasManagerService.checkGasBalance(): parseFloat(nativeBalance) > 0.01
GasMinimumHundredths == 1
checkGasBalance(balance) == parseFloatHundredths(balance.nativeBalance) > GasMinimumHundredths

\* hasSufficientBalance whose catch answers true
hasSufficientBalanceOnError(balance, amount, token) ==
    IF token = NativeToken
        THEN BigIntParses(balance.nativeBalance) => BigInt(balance.nativeBalance) >= amount
        ELSE \E t \in balance.tokens :
                /\ t.token = token
                /\ BigIntParses(t.balance) => BigInt(t.balance) >= amount

\* BlockradarService.hasSufficientBalance(amount, token); token = NativeToken
\* stands for the absent argument.  Whatever throws makes it answer false.
hasSufficientBalance(balance, amount, token) ==
    IF token = NativeToken
        THEN BigIntParses(balance.nativeBalance) /\ BigInt(balance.nativeBalance) >= amount
        ELSE \E t \in balance.tokens :
                /\ t.token = token
                /\ BigIntParses(t.balance)
                /\ BigInt(t.balance) >= amount

\* the receiver is sent the whole amount
NetAmountGross(amount, platformFeeCollected) == amount

\* netAmount = BigInt(request.amount) - BigInt(request.platformFee)
NetAmount(amount, platformFeeCollected) == amount - platformFeeCollected

\* the requests releaseFunds and refundFunds send to transfer()
PaymentTransfer(invoiceId, toAddress, amount, token, platformFeeCollected) ==
    [invoiceId |-> invoiceId, type |-> "invoice_payment", to |-> toAddress,
     amount |-> NetAmount(amount, platformFeeCollected), token |-> token]

FeeTransfer(invoiceId, token, platformFeeCollected) ==
    [invoiceId |-> invoiceId, type |-> "platform_fee", to |-> PlatformWallet,
     amount |-> platformFeeCollected, token |-> token]

RefundTransfer(invoiceId, payerAddress, amount, token) ==
    [invoiceId |-> invoiceId, type |-> "refund", to |-> payerAddress,
     amount |-> amount, token |-> token]

\* what the gateway records of an invoice's custody: the hold, the release
\* and the refund it logs as done
Custody(invoiceId, status) == [invoiceId |-> invoiceId, status |-> status]

\* ------------------------------------------------------------- the handlers
\* handleInvoiceFunded: getInvoice, then holdFunds, which logs the hold
FundedOutcome(log, fault) == IF fault = "getInvoice" THEN "rpc_error" ELSE "held"

\* handleInvoiceCompleted: getInvoice, the gas check, then releaseFunds
\* (balance check, receiver transfer, platform fee transfer).  balance is
\* what getWalletBalance() answers while the handler runs.
CompletedOutcome(log, fault, balance) ==
    LET invoice == getInvoice(log.invoiceId)
    IN  IF fault = "getInvoice" THEN "rpc_error"
        ELSE IF fault = "checkGasBalance" THEN "balance_query_error"
        ELSE IF ~checkGasBalance(balance) THEN "insufficient_gas"
        ELSE IF \/ fault = "hasSufficientBalance"
                \/ ~hasSufficientBalance(balance, invoice.amount, invoice.tokenAddress)
            THEN "insufficient_balance"
        ELSE IF fault = "receiverTransfer" THEN "receiver_transfer_error"
        ELSE IF fault = "platformFeeTransfer" THEN "platform_fee_transfer_error"
        ELSE "released"

\* handleInvoiceCancelled if it did not ask whether the invoice was funded
CancelledOutcomeAnyFunding(log, fault) ==
    LET invoice == getInvoice(log.invoiceId)
    IN  IF fault = "getInvoice" THEN "rpc_error"
        ELSE IF invoice.status = "Cancelled"
            THEN IF fault = "refundTransfer" THEN "refund_transfer_error" ELSE "refunded"
        ELSE "no_refund"

\* handleInvoiceCancelled: getInvoice, then refundFunds if the invoice is
\* Cancelled and had been funded
CancelledOutcome(log, fault) ==
    LET invoice == getInvoice(log.invoiceId)
    IN  IF fault = "getInvoice" THEN "rpc_error"
        ELSE IF invoice.status = "Cancelled" /\ invoice.fundedAt > 0
            THEN IF fault = "refundTransfer" THEN "refund_transfer_error" ELSE "refunded"
        ELSE "no_refund"

\* the handler does not get to the end of what the event asks for
Fails(log, fault, balance) ==
    CASE log.eventName = "InvoiceFunded" -> FundedOutcome(log, fault) # "held"
      [] log.eventName = "InvoiceCompleted" ->
            CompletedOutcome(log, fault, balance) # "released"
      [] log.eventName = "InvoiceCancelled" ->
            CancelledOutcome(log, fault) \notin {"refunded", "no_refund"}
      [] OTHER -> FALSE

handleInvoiceFunded(log, fault) ==
    /\ custodyLog' = IF FundedOutcome(log, fault) = "held"
                        THEN custodyLog (+) SetToBag({Custody(log.invoiceId, "held")})
                        ELSE custodyLog
    /\ UNCHANGED transfers

\* handleInvoiceCompleted recording the release once the receiver is paid
handleInvoiceCompletedEarly(log, fault, balance) ==
    LET invoice == getInvoice(log.invoiceId)
        outcome == CompletedOutcome(log, fault, balance)
        payment == PaymentTransfer(log.invoiceId, invoice.receiver, invoice.amount,
                                   invoice.tokenAddress, log.platformFeeCollected)
        fee == FeeTransfer(log.invoiceId, invoice.tokenAddress, log.platformFeeCollected)
    IN  /\ transfers' =
            IF outcome = "released"
                THEN transfers (+) SetToBag({payment}) (+) SetToBag({fee})
            ELSE IF outcome = "platform_fee_transfer_error"
                THEN transfers (+) SetToBag({payment})
            ELSE transfers
        /\ custodyLog' =
            IF outcome \in {"released", "platform_fee_transfer_error"}
                THEN custodyLog (+) SetToBag({Custody(log.invoiceId, "released")})
                ELSE custodyLog

handleInvoiceCompleted(log, fault, balance) ==
    LET invoice == getInvoice(log.invoiceId)
        outcome == CompletedOutcome(log, fault, balance)
        payment == PaymentTransfer(log.invoiceId, invoice.receiver, invoice.amount,
                                   invoice.tokenAddress, log.platformFeeCollected)
        fee == FeeTransfer(log.invoiceId, invoice.tokenAddress, log.platformFeeCollected)
    IN  /\ transfers' =
            IF outcome = "released"
                THEN transfers (+) SetToBag({payment}) (+) SetToBag({fee})
            ELSE IF outcome = "platform_fee_transfer_error"
                THEN transfers (+) SetToBag({payment})
            ELSE transfers
        /\ custodyLog' =
            IF outcome = "released"
                THEN custodyLog (+) SetToBag({Custody(log.invoiceId, "released")})
                ELSE custodyLog

handleInvoiceCancelled(log, fault) ==
    LET invoice == getInvoice(log.invoiceId)
        outcome == CancelledOutcome(log, fault)
        refund == RefundTransfer(log.invoiceId, invoice.payer, invoice.amount,
                                 invoice.tokenAddress)
    IN  /\ transfers' = IF outcome = "refunded"
                            THEN transfers (+) SetToBag({refund}) ELSE transfers
        /\ custodyLog' =
            IF outcome = "refunded"
                THEN custodyLog (+) SetToBag({Custody(log.invoiceId, "refunded")})
                ELSE custodyLog

\* the switch of processEvent, which is also what each event watcher calls;
\* handleInvoiceCreated, handleDeliverySubmitted and handleDeliveryConfirmed
\* log the event and do nothing else.  fault names the external call of the
\* handler that fails (times out, is refused), "none" if none does.
handle(log, fault, balance) ==
    CASE log.eventName = "InvoiceFunded" -> handleInvoiceFunded(log, fault)
      [] log.eventName = "InvoiceCompleted" ->
            handleInvoiceCompleted(log, fault, balance)
      [] log.eventName = "InvoiceCancelled" -> handleInvoiceCancelled(log, fault)
      [] OTHER -> UNCHANGED <<transfers, custodyLog>>

\* the external calls of the handler of this event
FaultsOf(eventName) ==
    CASE eventName = "InvoiceFunded" -> {"none", "getInvoice"}
      [] eventName = "InvoiceCompleted" ->
            {"none", "getInvoice", "checkGasBalance", "hasSufficientBalance",
             "receiverTransfer", "platformFeeTransfer"}
      [] eventName = "InvoiceCancelled" -> {"none", "getInvoice", "refundTransfer"}
      [] OTHER -> {"none"}

\* the balances the handler of this event reads
BalancesOf(eventName) ==
    IF eventName = "InvoiceCompleted" THEN WalletBalances
    ELSE {[nativeBalance |-> Balance(0, 0), tokens |-> {}]}

\* ------------------------------------------------------ EventListenerService
\* the order in which processBlockEvents fetches the event kinds
EventNames ==
    <<"InvoiceCreated", "InvoiceFunded", "DeliverySubmitted", "DeliveryConfirmed",
      "InvoiceCompleted", "InvoiceCancelled">>

\* the logs processBlockEvents(fromBlock, toBlock) handles, in its order:
\* kind by kind, and within a kind in the order getLogs answers
RECURSIVE LogsFrom(_, _, _)
LogsFrom(k, fromBlock, toBlock) ==
    IF k > Len(EventNames) THEN <<>>
    ELSE getLogs(EventNames[k], fromBlock, toBlock) \o LogsFrom(k + 1, fromBlock, toBlock)

RangeLogs(fromBlock, toBlock) == LogsFrom(1, fromBlock, toBlock)

\* the kinds whose handlers do more than write to the application log
FundMoving == {"InvoiceFunded", "InvoiceCompleted", "InvoiceCancelled"}

\* handleInvoiceCreated, handleDeliverySubmitted and handleDeliveryConfirmed
\* only log, so a scan passes over their logs within the step that precedes
\* them: the position after `position` logs of the range have been handled
RECURSIVE Pass(_, _)
Pass(range, position) ==
    IF position < Len(range) /\ range[position + 1].eventName \notin FundMoving
        THEN Pass(range, position + 1)
        ELSE position

\* the logs the watcher of one event kind is given: those emitted after it
\* subscribed
WatchedLogs(w, eventName) == getLogs(eventName, watchers[w].startBlock + 1, blockNumber)

\* start(): isListening, monitorGasBalance (which swallows its errors),
\* lastProcessedBlock = getBlockNumber(), then the seven watchers
start ==
    /\ ~isListening
    /\ isListening' = TRUE
    /\ lastProcessedBlock' = blockNumber
    /\ watchers' = Append(watchers,
            [startBlock |-> blockNumber, seenBlock |-> blockNumber,
             delivered |-> [eventName \in FundMoving |-> 0]])
    /\ UNCHANGED <<custodyLog, scans>>

\* start() when getBlockNumber() throws: isListening is reset, nothing is
\* subscribed and the error is rethrown
startFails ==
    /\ ~isListening
    /\ UNCHANGED <<custodyLog, isListening, lastProcessedBlock, watchers, scans>>

\* stop(): only the flag
stop ==
    /\ isListening
    /\ isListening' = FALSE
    /\ UNCHANGED <<custodyLog, lastProcessedBlock, watchers, scans>>

\* The block watcher of subscription w polls and sees a new block number:
\* the callback calls processBlockEvents(lastProcessedBlock + 1, blockNumber)
\* and nobody awaits the callback.
onBlockNumber(w) ==
    /\ w \in 1..Len(watchers)
    /\ watchers[w].seenBlock < blockNumber
    /\ watchers' = [watchers EXCEPT ![w].seenBlock = blockNumber]
    /\ IF lastProcessedBlock + 1 > blockNumber
          THEN \* if (fromBlock > toBlock) return; then the cursor is set
               /\ lastProcessedBlock' = blockNumber
               /\ UNCHANGED scans
          ELSE /\ scans' = scans \cup
                    {[watcher |-> w, fromBlock |-> lastProcessedBlock + 1,
                      toBlock |-> blockNumber,
                      position |-> Pass(RangeLogs(lastProcessedBlock + 1, blockNumber), 0)]}
               /\ UNCHANGED lastProcessedBlock
    /\ UNCHANGED <<custodyLog, isListening>>

\* the scan has a log left to handle
Scanning(scan) ==
    /\ scan \in scans
    /\ scan.position < Len(RangeLogs(scan.fromBlock, scan.toBlock))

NextLog(scan) == RangeLogs(scan.fromBlock, scan.toBlock)[scan.position + 1]

\* the turn of the loop if processEvent did not catch: what
\* handleInvoiceCompleted rethrows ends the loops in the catch of
\* processBlockEvents, and the callback sets the cursor
scanEventUncaught(scan, fault, balance) ==
    /\ Scanning(scan)
    /\ LET range == RangeLogs(scan.fromBlock, scan.toBlock)
           log == NextLog(scan)
       IN /\ fault \in FaultsOf(log.eventName)
          /\ balance \in BalancesOf(log.eventName)
          /\ handle(log, fault, balance)
          /\ IF log.eventName = "InvoiceCompleted" /\ Fails(log, fault, balance)
                THEN /\ scans' = scans \ {scan}
                     /\ lastProcessedBlock' = scan.toBlock
                ELSE /\ scans' = (scans \ {scan}) \cup
                            {[scan EXCEPT !.position = Pass(range, scan.position + 1)]}
                     /\ UNCHANGED lastProcessedBlock
    /\ UNCHANGED <<isListening, watchers>>

\* one turn of the inner loop of processBlockEvents: processEvent on the next
\* log of the range, which catches and logs whatever the handler throws
scanEvent(scan, fault, balance) ==
    /\ Scanning(scan)
    /\ LET range == RangeLogs(scan.fromBlock, scan.toBlock)
           log == NextLog(scan)
       IN /\ fault \in FaultsOf(log.eventName)
          /\ balance \in BalancesOf(log.eventName)
          /\ handle(log, fault, balance)
          /\ scans' = (scans \ {scan}) \cup
                {[scan EXCEPT !.position = Pass(range, scan.position + 1)]}
    /\ UNCHANGED <<isListening, lastProcessedBlock, watchers>>

\* the scan is about to call getLogs for some event kind
AtFetch(scan) ==
    LET range == RangeLogs(scan.fromBlock, scan.toBlock)
    IN  IF scan.position = 0 THEN TRUE
        ELSE IF scan.position = Len(range)
            THEN range[scan.position].eventName # EventNames[Len(EventNames)]
        ELSE range[scan.position].eventName # range[scan.position + 1].eventName

\* getLogs throws: the catch of processBlockEvents logs it, the rest of the
\* range is left out, and the callback goes on to
\* this.lastProcessedBlock = blockNumber
scanFetchFails(scan) ==
    /\ scan \in scans
    /\ AtFetch(scan)
    /\ lastProcessedBlock' = scan.toBlock
    /\ scans' = scans \ {scan}
    /\ UNCHANGED <<transfers, custodyLog, isListening, watchers>>

\* processBlockEvents has returned: this.lastProcessedBlock = blockNumber
scanReturns(scan) ==
    /\ scan \in scans
    /\ scan.position = Len(RangeLogs(scan.fromBlock, scan.toBlock))
    /\ lastProcessedBlock' = scan.toBlock
    /\ scans' = scans \ {scan}
    /\ UNCHANGED <<transfers, custodyLog, isListening, watchers>>

\* the watcher of this event kind has a log to hand over
Watching(w, eventName) ==
    /\ w \in 1..Len(watchers)
    /\ watchers[w].delivered[eventName] < Len(WatchedLogs(w, eventName))

\* The watcher of one fund-moving event kind of subscription w is given its
\* next log and calls the handler.  (A poll hands over one log here; the
\* callback is not awaited, and what handleInvoiceCompleted rethrows is
\* caught by nobody.)
watchEvent(w, eventName, fault, balance) ==
    /\ Watching(w, eventName)
    /\ fault \in FaultsOf(eventName)
    /\ balance \in BalancesOf(eventName)
    /\ handle(WatchedLogs(w, eventName)[watchers[w].delivered[eventName] + 1],
              fault, balance)
    /\ watchers' = [watchers EXCEPT ![w].delivered[eventName] = @ + 1]
    /\ UNCHANGED <<isListening, lastProcessedBlock, scans>>

\* ------------------------------------------------------------ specification
vars == <<agreements, disputes, invoiceToDispute, platformFee, supportedTokens,
          paused, issuerInvoices, payerInvoices, receiverInvoices, blockNumber, logs, transfers, custodyLog, isListening, lastProcessedBlock,
          watchers, scans, calls, poll, webhook, page>>

\* initialize(admin); the listener constructed, not started
Init ==
    /\ agreements = <<>>
    /\ disputes = <<>>
    /\ invoiceToDispute = [i \in 1..MaxInvoices |-> 0]
    /\ platformFee = DefaultPlatformFee
    /\ supportedTokens = {NativeToken}
    /\ paused = FALSE
    /\ issuerInvoices = [account \in Accounts |-> <<>>]
    /\ payerInvoices = [account \in Accounts |-> <<>>]
    /\ receiverInvoices = [account \in Accounts |-> <<>>]
    /\ blockNumber = 0
    /\ logs = <<>>
    /\ transfers = EmptyBag
    /\ custodyLog = EmptyBag
    /\ isListening = FALSE
    /\ lastProcessedBlock = 0
    /\ watchers = <<>>
    /\ scans = {}
    /\ calls = {}
    /\ poll = [state |-> "idle"]
    /\ webhook = [state |-> "idle"]
    /\ page = [state |-> "idle"]

\* a transaction of the parties to an invoice or of the arbiter; it does not
\* touch the backend
Transaction ==
    \/ \E amount \in Amounts, token \in Tokens :
            /\ Len(agreements) < MaxInvoices
            /\ createInvoice("issuer", "payer", "receiver", amount, token, TRUE)
            /\ UNCHANGED backendVars
    \/ \E sender \in Accounts, invoiceId \in 1..MaxInvoices :
            \E amount \in {PartialAmount,
                           IF invoiceExists(invoiceId)
                               THEN agreements[invoiceId].totalAmount
                                        - agreements[invoiceId].paidAmount
                               ELSE PartialAmount} :
                /\ markAsFunded(sender, invoiceId, amount)
                /\ UNCHANGED backendVars
    \/ \E sender \in Accounts, invoiceId \in 1..MaxInvoices :
            submitDelivery(sender, invoiceId) /\ UNCHANGED backendVars
    \/ \E sender \in Accounts, invoiceId \in 1..MaxInvoices :
            confirmDelivery(sender, invoiceId) /\ UNCHANGED backendVars
    \/ \E sender \in Accounts, invoiceId \in 1..MaxInvoices :
            raiseDispute(sender, invoiceId) /\ UNCHANGED backendVars
    \/ \E sender \in Accounts, invoiceId \in 1..MaxInvoices :
            cancelInvoice(sender, invoiceId) /\ UNCHANGED backendVars
    \/ \E sender \in Accounts, disputeId \in 1..MaxInvoices,
          resolution \in {"UnderReview", "ResolvedForIssuer", "ResolvedForPayer"},
          refundAmount \in {0, PartialAmount} :
            /\ resolveDispute(sender, disputeId, resolution, refundAmount)
            /\ UNCHANGED backendVars

\* a transaction of the registry's administrator, who is also its operator
\* and its arbiter; as arbiter it may also pass resolveDispute the values of
\* DisputeStatus that are no resolution
Administration ==
    \/ \E sender \in Accounts, fee \in FeeChoices :
            updatePlatformSettings(sender, fee) /\ UNCHANGED backendVars
    \/ \E sender \in Accounts :
            setSupportedToken(sender, UsdcToken, TRUE) /\ UNCHANGED backendVars
    \/ \E sender \in Accounts, invoiceId \in 1..MaxInvoices :
            autoCompleteInvoice(sender, invoiceId) /\ UNCHANGED backendVars
    \/ \E sender \in Accounts, disputeId \in 1..MaxInvoices,
          resolution \in {"None", "Raised", "Cancelled"} :
            /\ resolveDispute(sender, disputeId, resolution, 0)
            /\ UNCHANGED backendVars
    \/ \E sender \in Accounts : pause(sender) /\ UNCHANGED backendVars
    \/ \E sender \in Accounts : unpause(sender) /\ UNCHANGED backendVars

\* a block is mined
Chain == mineBlock /\ UNCHANGED contractVars /\ UNCHANGED backendVars

\* a step of the backend; it does not touch the chain
Listener ==
    \/ /\ Len(watchers) < MaxStarts
       /\ start
       /\ UNCHANGED transfers /\ UNCHANGED <<registryVars, requestVars>>
    \/ /\ Len(watchers) < MaxStarts
       /\ startFails
       /\ UNCHANGED transfers /\ UNCHANGED <<registryVars, requestVars>>
    \/ stop /\ UNCHANGED transfers /\ UNCHANGED <<registryVars, requestVars>>
    \/ \E w \in 1..MaxStarts :
            /\ onBlockNumber(w)
            /\ UNCHANGED transfers /\ UNCHANGED <<registryVars, requestVars>>
    \/ \E scan \in scans :
            /\ Scanning(scan)
            /\ \E fault \in FaultsOf(NextLog(scan).eventName),
                  balance \in BalancesOf(NextLog(scan).eventName) :
                    scanEvent(scan, fault, balance)
            /\ UNCHANGED <<registryVars, requestVars>>
    \/ \E scan \in scans :
            scanFetchFails(scan) /\ UNCHANGED <<registryVars, requestVars>>
    \/ \E scan \in scans :
            scanReturns(scan) /\ UNCHANGED <<registryVars, requestVars>>
    \/ \E w \in 1..MaxStarts, eventName \in FundMoving :
            /\ Watching(w, eventName)
            /\ \E fault \in FaultsOf(eventName), balance \in BalancesOf(eventName) :
                    watchEvent(w, eventName, fault, balance)
            /\ UNCHANGED <<registryVars, requestVars>>

\* the registry under the settings it is deployed with, and the backend
Next == Transaction \/ Chain \/ Listener

Spec == Init /\ [][Next]_vars

\* the registry with its administrator, without the backend
NextRegistry == Transaction \/ Administration \/ Chain

SpecRegistry == Init /\ [][NextRegistry]_vars

\* ---------------------------------------------------- the gateway's inputs
\* invoice amounts and platform fees the release is computed for
GatewayAmounts == {1, 999, 1000, 2000, 2001}
GatewayFees == {0, 1, 33, 250, 1000}

\* A listener started on the empty chain; since then one invoice of any of
\* these amounts, in either asset, was created, funded, delivered and
\* confirmed under any of these platform fees, all in the first block.
InitGateway ==
    /\ \E amount \in GatewayAmounts, token \in Tokens :
            agreements = <<[issuer |-> "issuer", payer |-> "payer", receiver |-> "receiver",
                            totalAmount |-> amount, paidAmount |-> amount,
                            tokenAddress |-> token, status |-> "Completed",
                            allowPartialPayment |-> TRUE,
                            minimumPartialAmount |-> PartialAmount, fundedAt |-> 1]>>
    /\ disputes = <<>>
    /\ invoiceToDispute = [i \in 1..MaxInvoices |-> 0]
    /\ platformFee \in GatewayFees
    /\ supportedTokens = {NativeToken, agreements[1].tokenAddress}
    /\ paused = FALSE
    /\ issuerInvoices = Listed("issuer")
    /\ payerInvoices = Listed("payer")
    /\ receiverInvoices = Listed("receiver")
    /\ blockNumber = 1
    /\ logs = <<[eventName |-> "InvoiceCreated", invoiceId |-> 1, blockNumber |-> 1,
                 logIndex |-> 0, platformFeeCollected |-> 0],
                [eventName |-> "InvoiceFunded", invoiceId |-> 1, blockNumber |-> 1,
                 logIndex |-> 1, platformFeeCollected |-> 0],
                [eventName |-> "DeliverySubmitted", invoiceId |-> 1, blockNumber |-> 1,
                 logIndex |-> 2, platformFeeCollected |-> 0],
                [eventName |-> "DeliveryConfirmed", invoiceId |-> 1, blockNumber |-> 1,
                 logIndex |-> 3, platformFeeCollected |-> 0],
                [eventName |-> "InvoiceCompleted", invoiceId |-> 1, blockNumber |-> 1,
                 logIndex |-> 4,
                 platformFeeCollected |->
                    calculatePlatformFee(agreements[1].totalAmount, platformFee)]>>
    /\ transfers = EmptyBag
    /\ custodyLog = EmptyBag
    /\ isListening = TRUE
    /\ lastProcessedBlock = 0
    /\ watchers = <<[startBlock |-> 0, seenBlock |-> 0,
                     delivered |-> [eventName \in FundMoving |-> 0]]>>
    /\ scans = {}
    /\ calls = {}
    /\ poll = [state |-> "idle"]
    /\ webhook = [state |-> "idle"]
    /\ page = [state |-> "idle"]

\* the backend at work on that block
NextGateway ==
    \/ stop /\ UNCHANGED transfers /\ UNCHANGED <<registryVars, requestVars>>
    \/ \E w \in 1..MaxStarts :
            /\ onBlockNumber(w)
            /\ UNCHANGED transfers /\ UNCHANGED <<registryVars, requestVars>>
    \/ \E scan \in scans :
            /\ Scanning(scan)
            /\ \E fault \in FaultsOf(NextLog(scan).eventName),
                  balance \in BalancesOf(NextLog(scan).eventName) :
                    scanEvent(scan, fault, balance)
            /\ UNCHANGED <<registryVars, requestVars>>
    \/ \E scan \in scans :
            scanFetchFails(scan) /\ UNCHANGED <<registryVars, requestVars>>
    \/ \E scan \in scans :
            scanReturns(scan) /\ UNCHANGED <<registryVars, requestVars>>
    \/ \E w \in 1..MaxStarts, eventName \in FundMoving :
            /\ Watching(w, eventName)
            /\ \E fault \in FaultsOf(eventName), balance \in BalancesOf(eventName) :
                    watchEvent(w, eventName, fault, balance)
            /\ UNCHANGED <<registryVars, requestVars>>

SpecGateway == InitGateway /\ [][NextGateway]_vars

\* ------------------------------------------- the handlers, await by await
\* A handler is an async function: it gives way at each await, and the
\* callbacks of the other watchers run in between.  A call is one invocation
\* of a handler: who made it, the log entry, the await it is at, and the
\* sufficiency checks it has passed.
ScanCaller(scan) ==
    [scan |-> TRUE, watcher |-> scan.watcher, fromBlock |-> scan.fromBlock,
     toBlock |-> scan.toBlock]

WatcherCaller(w) == [scan |-> FALSE, watcher |-> w, fromBlock |-> 0, toBlock |-> 0]

Call(by, log) == [by |-> by, log |-> log, pc |-> "getInvoice", checks |-> {}]

\* the scan awaits processEvent on a log of its range
Busy(scan) == \E call \in calls : call.by = ScanCaller(scan)

\* what the provider answers to a transfer request: the status of the
\* TransferResponse, or nothing within the client's timeout
ProviderAnswers == {"SUCCESS", "PENDING", "FAILED", "timeout"}

\* a transfer request with the status the provider answered it with
Answered(request, status) ==
    [invoiceId |-> request.invoiceId, type |-> request.type, to |-> request.to,
     amount |-> request.amount, token |-> request.token, status |-> status]

\* onLogs of the watcher of one event kind calls the handler on its next log
watcherCalls(w, eventName) ==
    /\ Watching(w, eventName)
    /\ calls' = calls \cup
            {Call(WatcherCaller(w),
                  WatchedLogs(w, eventName)[watchers[w].delivered[eventName] + 1])}
    /\ watchers' = [watchers EXCEPT ![w].delivered[eventName] = @ + 1]
    /\ UNCHANGED <<transfers, custodyLog, isListening, lastProcessedBlock, scans>>

\* processBlockEvents calls processEvent on the next log of its range
scanCalls(scan) ==
    /\ Scanning(scan)
    /\ ~Busy(scan)
    /\ calls' = calls \cup {Call(ScanCaller(scan), NextLog(scan))}
    /\ UNCHANGED <<transfers, custodyLog, isListening, lastProcessedBlock, watchers, scans>>

\* the handler goes on to its next await
Continues(call, pc, checks) ==
    /\ calls' = (calls \ {call}) \cup {[call EXCEPT !.pc = pc, !.checks = checks]}
    /\ UNCHANGED scans

\* the handler returns or throws; a scan that awaited it goes on to its next log
Ends(call) ==
    /\ calls' = calls \ {call}
    /\ scans' = IF call.by.scan
                    THEN {IF ScanCaller(scan) = call.by
                              THEN [scan EXCEPT !.position =
                                        Pass(RangeLogs(scan.fromBlock, scan.toBlock),
                                             scan.position + 1)]
                              ELSE scan : scan \in scans}
                    ELSE scans

\* await contractService.getInvoice(invoiceId) of the three handlers;
\* handleInvoiceFunded then calls holdFunds, which logs the hold
awaitGetInvoice(call, fails) ==
    /\ call \in calls
    /\ call.pc = "getInvoice"
    /\ LET invoice == getInvoice(call.log.invoiceId)
       IN  CASE fails -> Ends(call) /\ UNCHANGED custodyLog
             [] ~fails /\ call.log.eventName = "InvoiceFunded" ->
                    /\ Ends(call)
                    /\ custodyLog' = custodyLog (+)
                            SetToBag({Custody(call.log.invoiceId, "held")})
             [] ~fails /\ call.log.eventName = "InvoiceCompleted" ->
                    Continues(call, "checkGasBalance", call.checks) /\ UNCHANGED custodyLog
             [] ~fails /\ call.log.eventName = "InvoiceCancelled" ->
                    /\ IF invoice.status = "Cancelled" /\ invoice.fundedAt > 0
                          THEN Continues(call, "refundTransfer", call.checks)
                          ELSE Ends(call)
                    /\ UNCHANGED custodyLog
    /\ UNCHANGED <<transfers, isListening, lastProcessedBlock, watchers>>

\* await gasManagerService.checkGasBalance() of handleInvoiceCompleted
awaitCheckGasBalance(call, fails, balance) ==
    /\ call \in calls
    /\ call.pc = "checkGasBalance"
    /\ IF ~fails /\ checkGasBalance(balance)
          THEN Continues(call, "hasSufficientBalance", call.checks \cup {"checkGasBalance"})
          ELSE Ends(call)
    /\ UNCHANGED <<transfers, custodyLog, isListening, lastProcessedBlock, watchers>>

\* await this.hasSufficientBalance(...) of releaseFunds
awaitHasSufficientBalance(call, fails, balance) ==
    /\ call \in calls
    /\ call.pc = "hasSufficientBalance"
    /\ LET invoice == getInvoice(call.log.invoiceId)
       IN  IF ~fails /\ hasSufficientBalance(balance, invoice.amount, invoice.tokenAddress)
              THEN Continues(call, "receiverTransfer",
                             call.checks \cup {"hasSufficientBalance"})
              ELSE Ends(call)
    /\ UNCHANGED <<transfers, custodyLog, isListening, lastProcessedBlock, watchers>>

\* const receiverTransfer = await this.transfer(...) of releaseFunds
awaitReceiverTransfer(call, answer) ==
    /\ call \in calls
    /\ call.pc = "receiverTransfer"
    /\ LET invoice == getInvoice(call.log.invoiceId)
           payment == PaymentTransfer(call.log.invoiceId, invoice.receiver, invoice.amount,
                                      invoice.tokenAddress, call.log.platformFeeCollected)
       IN  IF answer = "timeout"
              THEN Ends(call) /\ UNCHANGED transfers
              ELSE /\ Continues(call, "platformFeeTransfer", call.checks)
                   /\ transfers' = transfers (+) SetToBag({Answered(payment, answer)})
    /\ UNCHANGED <<custodyLog, isListening, lastProcessedBlock, watchers>>

\* const platformFeeTransfer = await this.transfer(...) of releaseFunds, which
\* then logs the release and returns
awaitPlatformFeeTransfer(call, answer) ==
    /\ call \in calls
    /\ call.pc = "platformFeeTransfer"
    /\ LET invoice == getInvoice(call.log.invoiceId)
           fee == FeeTransfer(call.log.invoiceId, invoice.tokenAddress,
                              call.log.platformFeeCollected)
       IN  /\ Ends(call)
           /\ IF answer = "timeout"
                 THEN UNCHANGED <<transfers, custodyLog>>
                 ELSE /\ transfers' = transfers (+) SetToBag({Answered(fee, answer)})
                      /\ custodyLog' = custodyLog (+)
                            SetToBag({Custody(call.log.invoiceId, "released")})
    /\ UNCHANGED <<isListening, lastProcessedBlock, watchers>>

\* const refundTransfer = await this.transfer(...) of refundFunds, which then
\* logs the refund and returns
awaitRefundTransfer(call, answer) ==
    /\ call \in calls
    /\ call.pc = "refundTransfer"
    /\ LET invoice == getInvoice(call.log.invoiceId)
           refund == RefundTransfer(call.log.invoiceId, invoice.payer, invoice.amount,
                                    invoice.tokenAddress)
       IN  /\ Ends(call)
           /\ IF answer = "timeout"
                 THEN UNCHANGED <<transfers, custodyLog>>
                 ELSE /\ transfers' = transfers (+) SetToBag({Answered(refund, answer)})
                      /\ custodyLog' = custodyLog (+)
                            SetToBag({Custody(call.log.invoiceId, "refunded")})
    /\ UNCHANGED <<isListening, lastProcessedBlock, watchers>>

\* A listener started on the empty chain; since then one invoice was created
\* and funded and then either delivered and confirmed, or disputed, resolved
\* for the payer with nothing refunded, and cancelled by the payer, all in
\* the first block.
InitCalls ==
    /\ \E token \in Tokens, status \in {"Completed", "Cancelled"} :
        /\ agreements = <<[issuer |-> "issuer", payer |-> "payer", receiver |-> "receiver",
                           totalAmount |-> 1000, paidAmount |-> 1000,
                           tokenAddress |-> token, status |-> status,
                           allowPartialPayment |-> TRUE,
                           minimumPartialAmount |-> PartialAmount, fundedAt |-> 1]>>
        /\ disputes = IF status = "Completed" THEN <<>>
                      ELSE <<[invoiceId |-> 1, status |-> "ResolvedForPayer",
                              refundAmount |-> 0]>>
        /\ invoiceToDispute = [i \in 1..MaxInvoices |->
                                    IF i = 1 /\ status = "Cancelled" THEN 1 ELSE 0]
        /\ logs = <<[eventName |-> "InvoiceCreated", invoiceId |-> 1, blockNumber |-> 1,
                     logIndex |-> 0, platformFeeCollected |-> 0],
                    [eventName |-> "InvoiceFunded", invoiceId |-> 1, blockNumber |-> 1,
                     logIndex |-> 1, platformFeeCollected |-> 0]>>
                   \o IF status = "Completed"
                        THEN <<[eventName |-> "DeliverySubmitted", invoiceId |-> 1,
                                blockNumber |-> 1, logIndex |-> 2,
                                platformFeeCollected |-> 0],
                               [eventName |-> "DeliveryConfirmed", invoiceId |-> 1,
                                blockNumber |-> 1, logIndex |-> 3,
                                platformFeeCollected |-> 0],
                               [eventName |-> "InvoiceCompleted", invoiceId |-> 1,
                                blockNumber |-> 1, logIndex |-> 4,
                                platformFeeCollected |->
                                    calculatePlatformFee(1000, DefaultPlatformFee)]>>
                        ELSE <<[eventName |-> "InvoiceCancelled", invoiceId |-> 1,
                                blockNumber |-> 1, logIndex |-> 2,
                                platformFeeCollected |-> 0]>>
    /\ platformFee = DefaultPlatformFee
    /\ supportedTokens = {NativeToken, agreements[1].tokenAddress}
    /\ paused = FALSE
    /\ issuerInvoices = Listed("issuer")
    /\ payerInvoices = Listed("payer")
    /\ receiverInvoices = Listed("receiver")
    /\ blockNumber = 1
    /\ transfers = EmptyBag
    /\ custodyLog = EmptyBag
    /\ isListening = TRUE
    /\ lastProcessedBlock = 0
    /\ watchers = <<[startBlock |-> 0, seenBlock |-> 0,
                     delivered |-> [eventName \in FundMoving |-> 0]]>>
    /\ scans = {}
    /\ calls = {}
    /\ poll = [state |-> "idle"]
    /\ webhook = [state |-> "idle"]
    /\ page = [state |-> "idle"]

idleVars == <<agreements, disputes, invoiceToDispute, platformFee, supportedTokens,
             paused, issuerInvoices, payerInvoices, receiverInvoices,
              blockNumber, logs, poll, webhook, page>>

\* the backend at work on that block, its handlers interleaved
NextCalls ==
    \/ \E w \in 1..MaxStarts :
            /\ onBlockNumber(w)
            /\ UNCHANGED <<transfers, calls>> /\ UNCHANGED idleVars
    \/ \E scan \in scans :
            /\ ~Busy(scan)
            /\ scanFetchFails(scan)
            /\ UNCHANGED calls /\ UNCHANGED idleVars
    \/ \E scan \in scans :
            scanReturns(scan) /\ UNCHANGED calls /\ UNCHANGED idleVars
    \/ \E scan \in scans : scanCalls(scan) /\ UNCHANGED idleVars
    \/ \E w \in 1..MaxStarts, eventName \in FundMoving :
            watcherCalls(w, eventName) /\ UNCHANGED idleVars
    \/ \E call \in calls, fails \in BOOLEAN :
            awaitGetInvoice(call, fails) /\ UNCHANGED idleVars
    \/ \E call \in calls :
            /\ call.pc = "checkGasBalance"
            /\ \E fails \in BOOLEAN, balance \in WalletBalances :
                    awaitCheckGasBalance(call, fails, balance)
            /\ UNCHANGED idleVars
    \/ \E call \in calls :
            /\ call.pc = "hasSufficientBalance"
            /\ \E fails \in BOOLEAN, balance \in WalletBalances :
                    awaitHasSufficientBalance(call, fails, balance)
            /\ UNCHANGED idleVars
    \/ \E call \in calls, answer \in ProviderAnswers :
            awaitReceiverTransfer(call, answer) /\ UNCHANGED idleVars
    \/ \E call \in calls, answer \in ProviderAnswers :
            awaitPlatformFeeTransfer(call, answer) /\ UNCHANGED idleVars
    \/ \E call \in calls, answer \in ProviderAnswers :
            awaitRefundTransfer(call, answer) /\ UNCHANGED idleVars

SpecCalls == InitCalls /\ [][NextCalls]_vars

\* ------------------------------------------------------- the backend process
\* index.ts: bootstrap() starts the listener, then registers shutdown for
\* SIGTERM and SIGINT.  The service object and its fields live in the memory
\* of the process; nothing of it is written to a file or a database.

\* shutdown() if it ended with stop() and left the process running
shutdownWithoutExit ==
    /\ isListening
    /\ isListening' = FALSE
    /\ UNCHANGED <<transfers, custodyLog, lastProcessedBlock, watchers, scans, calls>>

\* shutdown(): eventListenerService.stop(), then process.exit(0) in the same
\* turn of the event loop.  The subscriptions, the scans and the handlers in
\* progress end with the process, and so does the cursor: the next process
\* constructs the service anew (lastProcessedBlock = 0n).  What the provider
\* has transferred and what was logged stay.
shutdown ==
    /\ isListening
    /\ isListening' = FALSE
    /\ lastProcessedBlock' = 0
    /\ watchers' = <<>>
    /\ scans' = {}
    /\ calls' = {}
    /\ UNCHANGED <<transfers, custodyLog>>

\* bootstrap() has run on the freshly deployed registry: the listener is
\* started at block 0
InitProcess ==
    /\ agreements = <<>>
    /\ disputes = <<>>
    /\ invoiceToDispute = [i \in 1..MaxInvoices |-> 0]
    /\ platformFee = DefaultPlatformFee
    /\ supportedTokens = {NativeToken}
    /\ paused = FALSE
    /\ issuerInvoices = [account \in Accounts |-> <<>>]
    /\ payerInvoices = [account \in Accounts |-> <<>>]
    /\ receiverInvoices = [account \in Accounts |-> <<>>]
    /\ blockNumber = 0
    /\ logs = <<>>
    /\ transfers = EmptyBag
    /\ custodyLog = EmptyBag
    /\ isListening = TRUE
    /\ lastProcessedBlock = 0
    /\ watchers = <<[startBlock |-> 0, seenBlock |-> 0,
                     delivered |-> [eventName \in FundMoving |-> 0]]>>
    /\ scans = {}
    /\ calls = {}
    /\ poll = [state |-> "idle"]
    /\ webhook = [state |-> "idle"]
    /\ page = [state |-> "idle"]

\* the process is stopped by a signal and started again by bootstrap();
\* stop() has no caller but shutdown()
Process ==
    \/ /\ Len(watchers) < MaxStarts
       /\ start
       /\ UNCHANGED transfers /\ UNCHANGED <<registryVars, requestVars>>
    \/ /\ Len(watchers) < MaxStarts
       /\ startFails
       /\ UNCHANGED transfers /\ UNCHANGED <<registryVars, requestVars>>
    \/ shutdown /\ UNCHANGED <<registryVars, poll, webhook, page>>
    \/ \E w \in 1..MaxStarts :
            /\ onBlockNumber(w)
            /\ UNCHANGED transfers /\ UNCHANGED <<registryVars, requestVars>>
    \/ \E scan \in scans :
            /\ Scanning(scan)
            /\ \E fault \in FaultsOf(NextLog(scan).eventName),
                  balance \in BalancesOf(NextLog(scan).eventName) :
                    scanEvent(scan, fault, balance)
            /\ UNCHANGED <<registryVars, requestVars>>
    \/ \E scan \in scans :
            scanFetchFails(scan) /\ UNCHANGED <<registryVars, requestVars>>
    \/ \E scan \in scans :
            scanReturns(scan) /\ UNCHANGED <<registryVars, requestVars>>
    \/ \E w \in 1..MaxStarts, eventName \in FundMoving :
            /\ Watching(w, eventName)
            /\ \E fault \in FaultsOf(eventName), balance \in BalancesOf(eventName) :
                    watchEvent(w, eventName, fault, balance)
            /\ UNCHANGED <<registryVars, requestVars>>

NextProcess == Transaction \/ Chain \/ Process

SpecProcess == InitProcess /\ [][NextProcess]_vars

\* the same process while every call to the node and to the provider
\* answers: no getLogs and no call of a handler fails
ProcessUndisturbed ==
    \/ /\ Len(watchers) < MaxStarts
       /\ start
       /\ UNCHANGED transfers /\ UNCHANGED <<registryVars, requestVars>>
    \/ shutdown /\ UNCHANGED <<registryVars, poll, webhook, page>>
    \/ \E w \in 1..MaxStarts :
            /\ onBlockNumber(w)
            /\ UNCHANGED transfers /\ UNCHANGED <<registryVars, requestVars>>
    \/ \E scan \in scans :
            /\ Scanning(scan)
            /\ \E balance \in BalancesOf(NextLog(scan).eventName) :
                    scanEvent(scan, "none", balance)
            /\ UNCHANGED <<registryVars, requestVars>>
    \/ \E scan \in scans :
            scanReturns(scan) /\ UNCHANGED <<registryVars, requestVars>>
    \/ \E w \in 1..MaxStarts, eventName \in FundMoving :
            /\ Watching(w, eventName)
            /\ \E balance \in BalancesOf(eventName) :
                    watchEvent(w, eventName, "none", balance)
            /\ UNCHANGED <<registryVars, requestVars>>

NextRestart == Transaction \/ Chain \/ ProcessUndisturbed

SpecRestart == InitProcess /\ [][NextRestart]_vars

\* ------------------------------------------- two invoices in one block range
\* what the registry has emitted for an invoice that was created and funded
\* and is now in this status, the first entry at logIndex `first` of block 1
HistoryOf(invoiceId, status, first) ==
    LET entry(eventName, offset, fee) ==
            [eventName |-> eventName, invoiceId |-> invoiceId, blockNumber |-> 1,
             logIndex |-> first + offset, platformFeeCollected |-> fee]
    IN  <<entry("InvoiceCreated", 0, 0), entry("InvoiceFunded", 1, 0)>>
        \o CASE status = "Completed" ->
                    <<entry("DeliverySubmitted", 2, 0), entry("DeliveryConfirmed", 3, 0),
                      entry("InvoiceCompleted", 4,
                            calculatePlatformFee(1000, DefaultPlatformFee))>>
             [] status = "Cancelled" -> <<entry("InvoiceCancelled", 2, 0)>>
             [] OTHER -> <<>>

\* Two invoices of the native asset were created and funded, and each was
\* then left as it is, completed, or disputed, resolved for the payer and
\* cancelled, all within block 1, the transactions of either invoice first;
\* the listener was started at block 0.
InitRange ==
    /\ \E status \in [1..2 -> {"Funded", "Completed", "Cancelled"}], first \in 1..2 :
        /\ agreements = [i \in 1..2 |->
                [issuer |-> "issuer", payer |-> "payer", receiver |-> "receiver",
                 totalAmount |-> 1000, paidAmount |-> 1000,
                 tokenAddress |-> NativeToken, status |-> status[i],
                 allowPartialPayment |-> TRUE,
                 minimumPartialAmount |-> PartialAmount, fundedAt |-> 1]]
        /\ disputes = SelectSeq([i \in 1..2 |-> [invoiceId |-> i,
                                                 status |-> "ResolvedForPayer",
                                                 refundAmount |-> 0]],
                                LAMBDA d : status[d.invoiceId] = "Cancelled")
        /\ invoiceToDispute = [i \in 1..2 |->
                IF status[i] # "Cancelled" THEN 0
                ELSE IF i = 2 /\ status[1] = "Cancelled" THEN 2 ELSE 1]
        /\ logs = LET second == 3 - first
                      before == HistoryOf(first, status[first], 0)
                  IN  before \o HistoryOf(second, status[second], Len(before))
    /\ platformFee = DefaultPlatformFee
    /\ supportedTokens = {NativeToken}
    /\ paused = FALSE
    /\ issuerInvoices = Listed("issuer")
    /\ payerInvoices = Listed("payer")
    /\ receiverInvoices = Listed("receiver")
    /\ blockNumber = 1
    /\ transfers = EmptyBag
    /\ custodyLog = EmptyBag
    /\ isListening = TRUE
    /\ lastProcessedBlock = 0
    /\ watchers = <<[startBlock |-> 0, seenBlock |-> 0,
                     delivered |-> [eventName \in FundMoving |-> 0]]>>
    /\ scans = {}
    /\ calls = {}
    /\ poll = [state |-> "idle"]
    /\ webhook = [state |-> "idle"]
    /\ page = [state |-> "idle"]

\* The listener while the calls made for invoice 1 may fail and every other
\* call answers: the handling of an event of invoice 2 does not fail, and
\* neither does getLogs.
NextRange ==
    \/ Chain
    \/ \E w \in 1..MaxStarts :
            /\ onBlockNumber(w)
            /\ UNCHANGED transfers /\ UNCHANGED <<registryVars, requestVars>>
    \/ \E scan \in scans :
            /\ Scanning(scan)
            /\ \E fault \in FaultsOf(NextLog(scan).eventName),
                  balance \in BalancesOf(NextLog(scan).eventName) :
                    /\ NextLog(scan).invoiceId = 1 \/ ~Fails(NextLog(scan), fault, balance)
                    /\ scanEvent(scan, fault, balance)
            /\ UNCHANGED <<registryVars, requestVars>>
    \/ \E scan \in scans :
            scanReturns(scan) /\ UNCHANGED <<registryVars, requestVars>>
    \/ \E w \in 1..MaxStarts, eventName \in FundMoving :
            /\ Watching(w, eventName)
            /\ \E fault \in FaultsOf(eventName), balance \in BalancesOf(eventName) :
                LET log == WatchedLogs(w, eventName)[watchers[w].delivered[eventName] + 1]
                IN  /\ log.invoiceId = 1 \/ ~Fails(log, fault, balance)
                    /\ watchEvent(w, eventName, fault, balance)
            /\ UNCHANGED <<registryVars, requestVars>>

SpecRange == InitRange /\ [][NextRange]_vars

\* ------------------------------------ BlockradarService.pollTransactionStatus
\* the largest maxAttempts a caller passes here
MaxAttempts == 3

\* options?.maxAttempts || 60
DefaultMaxAttempts == 60

\* value || fallback on numbers: 0 is falsy
OrElse(value, fallback) == IF value = 0 THEN fallback ELSE value

\* pollTransactionStatus(txId, {maxAttempts: requested}) has been called:
\* const maxAttempts = ..., let attempts = 0.  queries counts the calls of
\* getTransactionStatus.
InitPoll ==
    /\ agreements = <<>>
    /\ disputes = <<>>
    /\ invoiceToDispute = [i \in 1..MaxInvoices |-> 0]
    /\ platformFee = DefaultPlatformFee
    /\ supportedTokens = {NativeToken}
    /\ paused = FALSE
    /\ issuerInvoices = [account \in Accounts |-> <<>>]
    /\ payerInvoices = [account \in Accounts |-> <<>>]
    /\ receiverInvoices = [account \in Accounts |-> <<>>]
    /\ blockNumber = 0
    /\ logs = <<>>
    /\ transfers = EmptyBag
    /\ custodyLog = EmptyBag
    /\ isListening = FALSE
    /\ lastProcessedBlock = 0
    /\ watchers = <<>>
    /\ scans = {}
    /\ calls = {}
    /\ \E requested \in 0..MaxAttempts :
            poll = [state |-> "polling", requested |-> requested,
                    maxAttempts |-> OrElse(requested, DefaultMaxAttempts),
                    attempts |-> 0, queries |-> 0, status |-> "PENDING",
                    answer |-> "none"]
    /\ webhook = [state |-> "idle"]
    /\ page = [state |-> "idle"]

\* the turn of the loop if it returned whatever status the query reported
pollAttemptAnyStatus(answer, onUpdateThrows) ==
    /\ poll.state = "polling"
    /\ poll.attempts < poll.maxAttempts
    /\ poll' = IF answer # "timeout" /\ ~onUpdateThrows
                  THEN [poll EXCEPT !.state = "returned", !.status = answer,
                                    !.answer = answer, !.queries = @ + 1]
                  ELSE [poll EXCEPT !.attempts = @ + 1, !.answer = answer,
                                    !.queries = @ + 1]

\* one turn of while (attempts < maxAttempts): getTransactionStatus answers
\* or throws ("timeout"); the status is handed to options.onUpdate, which
\* may throw into the same catch; SUCCESS and FAILED are returned, anything
\* else sleeps and counts an attempt.  answer keeps what the query reported.
pollAttempt(answer, onUpdateThrows) ==
    /\ poll.state = "polling"
    /\ poll.attempts < poll.maxAttempts
    /\ poll' = IF answer \in {"SUCCESS", "FAILED"} /\ ~onUpdateThrows
                  THEN [poll EXCEPT !.state = "returned", !.status = answer,
                                    !.answer = answer, !.queries = @ + 1]
                  ELSE [poll EXCEPT !.attempts = @ + 1, !.answer = answer,
                                    !.queries = @ + 1]

\* the loop is left: throw new Error('Transaction polling timeout after ...')
pollTimeout ==
    /\ poll.state = "polling"
    /\ poll.attempts >= poll.maxAttempts
    /\ poll' = [poll EXCEPT !.state = "timeout"]

NextPoll ==
    \/ \E answer \in ProviderAnswers, onUpdateThrows \in BOOLEAN :
            /\ answer = "timeout" => ~onUpdateThrows
            /\ pollAttempt(answer, onUpdateThrows)
            /\ UNCHANGED <<registryVars, transfers, custodyLog, isListening,
                           lastProcessedBlock, watchers, scans, calls, webhook, page>>
    \/ /\ pollTimeout
       /\ UNCHANGED <<registryVars, transfers, custodyLog, isListening,
                      lastProcessedBlock, watchers, scans, calls, webhook, page>>

SpecPoll == InitPoll /\ [][NextPoll]_vars

\* -------------------------------------------------------- WebhookController
\* A request body as it arrives: the event it carries and how its JSON text
\* is laid out.  express.json() parses it into req.body; no middleware keeps
\* the text (rawBodyMiddleware of utils/logger.ts is installed nowhere).
Bodies ==
    [event : {"custom-smart-contract.success", "transfer.success", "transfer.failed"},
     layout : {"compact", "spaced"}]

\* a GET request carries no body
NoBody == [event |-> "none", layout |-> "none"]

\* JSON.stringify(req.body): the event in the layout JSON.stringify writes
stringify(body) == [body EXCEPT !.layout = "compact"]

\* createHmac('sha256', secret).update(payload).digest('hex'): 64 hex digits
\* that only the holder of the secret can compute for a payload
Hmac(payload) == [hexLength |-> 64, digest |-> payload]

\* what the x-blockradar-signature header may hold: nothing, a string that
\* is no HMAC (of another length, or 64 hex digits), or the HMAC of a text
\* the provider has signed
Signatures ==
    {[hexLength |-> n, digest |-> NoBody] : n \in {0, 10, 64}}
        \cup {Hmac(body) : body \in Bodies}

\* env.NODE_ENV
Environments == {"development", "production", "test"}

\* verifyWebhookSignature: timingSafeEqual throws on buffers of different
\* length, and the catch answers false
verifyWebhookSignature(payload, signature) ==
    IF signature.hexLength # Hmac(payload).hexLength THEN FALSE
    ELSE signature = Hmac(payload)

\* the request and its answer: the status code, whether handleWebhook was
\* invoked, and the success field of the answer
Answer(route, body, signature, code, processed, success) ==
    [webhook EXCEPT !.state = "answered", !.route = route, !.body = body,
                    !.signature = signature, !.code = code, !.processed = processed,
                    !.success = success]

\* the server is up in some environment and no request has been answered
InitWebhook ==
    /\ agreements = <<>>
    /\ disputes = <<>>
    /\ invoiceToDispute = [i \in 1..MaxInvoices |-> 0]
    /\ platformFee = DefaultPlatformFee
    /\ supportedTokens = {NativeToken}
    /\ paused = FALSE
    /\ issuerInvoices = [account \in Accounts |-> <<>>]
    /\ payerInvoices = [account \in Accounts |-> <<>>]
    /\ receiverInvoices = [account \in Accounts |-> <<>>]
    /\ blockNumber = 0
    /\ logs = <<>>
    /\ transfers = EmptyBag
    /\ custodyLog = EmptyBag
    /\ isListening = FALSE
    /\ lastProcessedBlock = 0
    /\ watchers = <<>>
    /\ scans = {}
    /\ calls = {}
    /\ poll = [state |-> "idle"]
    /\ \E environment \in Environments :
            webhook = [state |-> "idle", environment |-> environment,
                       route |-> "none", body |-> NoBody,
                       signature |-> [hexLength |-> 0, digest |-> NoBody],
                       code |-> 0, processed |-> FALSE, success |-> FALSE]
    /\ page = [state |-> "idle"]

\* POST /api/webhooks/blockradar.  throws: handleWebhook rethrows what its
\* handler threw, and the catch answers 200 with success: false.
handleBlockradarWebhook(body, signature, throws) ==
    LET rawBody == stringify(body)
    IN  webhook' =
            IF signature.hexLength = 0
                THEN Answer("blockradar", body, signature, 401, FALSE, FALSE)
            ELSE IF ~verifyWebhookSignature(rawBody, signature)
                THEN Answer("blockradar", body, signature, 401, FALSE, FALSE)
            ELSE Answer("blockradar", body, signature, 200, TRUE, ~throws)

\* GET /api/webhooks/test, registered unless NODE_ENV is production:
\* handleWebhook(testEvent), then 200, or 500 if it threw
testWebhook(throws) ==
    /\ webhook.environment # "production"
    /\ webhook' = Answer("test", NoBody, [hexLength |-> 0, digest |-> NoBody],
                         IF throws THEN 500 ELSE 200, TRUE, ~throws)

NextWebhook ==
    \/ \E body \in Bodies, signature \in Signatures, throws \in BOOLEAN :
            /\ handleBlockradarWebhook(body, signature, throws)
            /\ UNCHANGED <<registryVars, transfers, custodyLog, isListening,
                           lastProcessedBlock, watchers, scans, calls, poll, page>>
    \/ \E throws \in BOOLEAN :
            /\ testWebhook(throws)
            /\ UNCHANGED <<registryVars, transfers, custodyLog, isListening,
                           lastProcessedBlock, watchers, scans, calls, poll, page>>

SpecWebhook == InitWebhook /\ [][NextWebhook]_vars

\* ------------------------------------------------------------- observations
\* how many transfers of this type the provider was asked for on behalf of
\* the invoice
Issued(invoiceId, type) ==
    LET sent == {t \in BagToSet(transfers) : t.invoiceId = invoiceId /\ t.type = type}
    IN  BagCardinality([t \in sent |-> CopiesIn(t, transfers)])

\* how many times the gateway recorded this custody status for the invoice
Recorded(invoiceId, status) == CopiesIn(Custody(invoiceId, status), custodyLog)

\* the log entries of one kind the chain holds for the invoice
Emitted(invoiceId, eventName) ==
    Len(SelectSeq(logs, LAMBDA log : log.invoiceId = invoiceId /\ log.eventName = eventName))

Invoices == 1..Len(agreements)

\* ------------------------------------------------------------------- claims
\* C1: delivering the same log entry more than once (watcher and block scan,
\* or two scans of one range) moves no funds twice: for every invoice, no
\* more receiver transfers and platform-fee transfers are issued than it has
\* InvoiceCompleted entries, and no more refunds than InvoiceCancelled entries.
C1_OneMovementPerLogEntry ==
    \A invoiceId \in Invoices :
        /\ Issued(invoiceId, "invoice_payment") <= Emitted(invoiceId, "InvoiceCompleted")
        /\ Issued(invoiceId, "platform_fee") <= Emitted(invoiceId, "InvoiceCompleted")
        /\ Issued(invoiceId, "refund") <= Emitted(invoiceId, "InvoiceCancelled")

\* C2: the custody statuses recorded for an invoice are held, released or
\* refunded, never both released and refunded, and no invoice has both a
\* release transfer and a refund transfer issued for it.
C2_ReleasedOrRefundedNeverBoth ==
    /\ \A record \in BagToSet(custodyLog) : record.status \in {"held", "released", "refunded"}
    /\ \A invoiceId \in Invoices :
        /\ ~(Recorded(invoiceId, "released") > 0 /\ Recorded(invoiceId, "refunded") > 0)
        /\ ~(/\ Issued(invoiceId, "invoice_payment") + Issued(invoiceId, "platform_fee") > 0
             /\ Issued(invoiceId, "refund") > 0)

\* a funded invoice was cancelled, its hold was recorded and its refund issued
C2_Witness ==
    \E invoiceId \in Invoices :
        /\ Recorded(invoiceId, "held") > 0
        /\ Recorded(invoiceId, "refunded") > 0
        /\ Issued(invoiceId, "refund") > 0

\* a log entry of the range is resolved: its custody action has been recorded,
\* or it asks for none
Resolved(log) ==
    CASE log.eventName = "InvoiceFunded" -> Recorded(log.invoiceId, "held") > 0
      [] log.eventName = "InvoiceCompleted" -> Recorded(log.invoiceId, "released") > 0
      [] log.eventName = "InvoiceCancelled" ->
            getInvoice(log.invoiceId).status = "Cancelled"
                /\ getInvoice(log.invoiceId).fundedAt > 0
            => Recorded(log.invoiceId, "refunded") > 0
      [] OTHER -> TRUE

\* C3: when a scan of a block range ends and the cursor is set to the end of
\* the range, every log entry of the range has been resolved.
C3_CursorAfterRangeResolved ==
    [][\A scan \in scans :
            /\ \A other \in scans' :
                    other.watcher # scan.watcher \/ other.toBlock # scan.toBlock
            /\ lastProcessedBlock' = scan.toBlock
            => LET range == RangeLogs(scan.fromBlock, scan.toBlock)
               IN  \A n \in 1..Len(range) : Resolved(range[n])']_vars

\* C4: the cursor never decreases.
C4_CursorNonDecreasing == [][lastProcessedBlock' >= lastProcessedBlock]_vars

\* C5: at most one invocation of processBlockEvents is in progress, and no
\* block is covered by two invocations in progress.
C5_ScansSequential ==
    /\ Cardinality(scans) <= 1
    /\ \A a, b \in scans : a # b => a.toBlock < b.fromBlock \/ b.toBlock < a.fromBlock

\* C6: InvoiceCompleted handled while no held record exists for the invoice
\* issues no transfer and creates no record: an invoice with a release
\* transfer or a released record has a held record.
C6_ReleaseOnlyFromHeld ==
    \A invoiceId \in Invoices :
        \/ Issued(invoiceId, "invoice_payment") > 0
        \/ Issued(invoiceId, "platform_fee") > 0
        \/ Recorded(invoiceId, "released") > 0
        => Recorded(invoiceId, "held") > 0

\* a handler is called on a log entry, by a watcher or by a scan
Handles(log, fault, balance) ==
    \/ \E w \in 1..Len(watchers) :
            /\ Watching(w, log.eventName)
            /\ log = WatchedLogs(w, log.eventName)[watchers[w].delivered[log.eventName] + 1]
            /\ watchEvent(w, log.eventName, fault, balance)
    \/ \E scan \in scans :
            /\ Scanning(scan)
            /\ log = NextLog(scan)
            /\ scanEvent(scan, fault, balance)

\* the wallet holds less than the release needs: the native balance is not
\* above the gas minimum, or the balance in the invoice's asset is below the
\* invoice amount
BelowRequirement(balance, invoiceId) ==
    LET agreement == agreements[invoiceId]
        held == IF agreement.tokenAddress = NativeToken THEN {balance.nativeBalance}
                ELSE {t.balance : t \in {u \in balance.tokens :
                                            u.token = agreement.tokenAddress}}
    IN  \/ balance.nativeBalance.whole * 100 + balance.nativeBalance.hundredths <= 1
        \/ held = {}
        \/ \E b \in held : b.whole * 100 + b.hundredths < agreement.totalAmount * 100

\* C7: when InvoiceCompleted is handled while the wallet holds less than the
\* release needs, no transfer is issued and no release is recorded (no step
\* that changes the transfers or the custody records is such a handling), and
\* the handler that got as far as the checks ends with an insufficient-balance
\* error.
C7_InsufficientBalanceFailsFast ==
    [][\A log \in {logs[n] : n \in 1..Len(logs)} :
            log.eventName = "InvoiceCompleted" /\ log.blockNumber <= blockNumber
            => \A fault \in FaultsOf(log.eventName), balance \in WalletBalances :
                    BelowRequirement(balance, log.invoiceId)
                    => /\ transfers' # transfers \/ custodyLog' # custodyLog
                            => ~Handles(log, fault, balance)
                       /\ fault \notin {"getInvoice", "checkGasBalance"}
                            => CompletedOutcome(log, fault, balance)
                                    \in {"insufficient_gas", "insufficient_balance"}]_vars

\* the invoice asks for more than the wallet ever holds, its InvoiceCompleted
\* entry has been handled by the watcher, and nothing was transferred or
\* recorded as released
C7_Witness ==
    /\ Len(agreements) = 1
    /\ \A balance \in WalletBalances : BelowRequirement(balance, 1)
    /\ Len(watchers) = 1
    /\ watchers[1].delivered["InvoiceCompleted"] = 1
    /\ transfers = EmptyBag
    /\ Recorded(1, "released") = 0

\* C8: for an invoice of amount A completed under a platform fee of bps basis
\* points, F = floor(A * bps / 10000): every receiver transfer is of A - F,
\* every platform-fee transfer is of F, 0 <= F <= A and the two add up to A.
C8_ReleaseSplitsAmountExactly ==
    \A t \in BagToSet(transfers) :
        t.type \in {"invoice_payment", "platform_fee"} =>
            LET A == agreements[t.invoiceId].totalAmount
                F == (A * platformFee) \div 10000
            IN  /\ platformFee <= 1000
                /\ 0 <= F /\ F <= A
                /\ t.type = "invoice_payment" => t.amount = A - F
                /\ t.type = "platform_fee" => t.amount = F
                /\ (A - F) + F = A

\* an invoice of 1000 completed at 250 basis points: 975 sent to the receiver
\* and 25 to the platform
C8_Witness ==
    \E invoiceId \in Invoices :
        /\ agreements[invoiceId].totalAmount = 1000
        /\ \E t \in BagToSet(transfers) :
                t.invoiceId = invoiceId /\ t.type = "invoice_payment" /\ t.amount = 975
                    /\ t.to = agreements[invoiceId].receiver
        /\ \E t \in BagToSet(transfers) :
                t.invoiceId = invoiceId /\ t.type = "platform_fee" /\ t.amount = 25
                    /\ t.to = PlatformWallet

\* C9: for a funded invoice that was cancelled, exactly one refund transfer
\* is ever issued, and it goes to the payer, for the invoice's full amount, in
\* the invoice's asset.
C9_ExactlyOneRefund ==
    \A invoiceId \in Invoices :
        /\ Issued(invoiceId, "refund") <= 1
        /\ \A t \in BagToSet(transfers) :
                t.invoiceId = invoiceId /\ t.type = "refund" =>
                    /\ t.to = agreements[invoiceId].payer
                    /\ t.amount = agreements[invoiceId].totalAmount
                    /\ t.token = agreements[invoiceId].tokenAddress

\* C10: a handling of InvoiceCompleted or InvoiceCancelled that fails at any
\* step records nothing: an invoice is recorded as released exactly as many
\* times as its platform-fee transfer, the last step of a release, was
\* answered, which is never more often than its receiver transfer was; and
\* as refunded exactly as many times as its refund transfer was answered.
C10_FailedHandlingRecordsNothing ==
    \A invoiceId \in Invoices :
        /\ Recorded(invoiceId, "released") = Issued(invoiceId, "platform_fee")
        /\ Issued(invoiceId, "platform_fee") <= Issued(invoiceId, "invoice_payment")
        /\ Recorded(invoiceId, "refunded") = Issued(invoiceId, "refund")

\* the receiver transfer of an invoice was issued, its platform-fee transfer
\* failed, and the invoice is recorded as held and not as released
C10_Witness ==
    \E invoiceId \in Invoices :
        /\ Issued(invoiceId, "invoice_payment") > Issued(invoiceId, "platform_fee")
        /\ Recorded(invoiceId, "held") > 0
        /\ Recorded(invoiceId, "released") = 0

\* the place of a log entry in a sequence of log entries that holds it
IndexIn(entries, log) == CHOOSE n \in 1..Len(entries) : entries[n] = log

\* a handling of the log entry is still to come: a watcher has yet to hand
\* it over, a scan in progress has yet to reach it, or the cursor is still
\* below its block, so that the next scan covers it
Pending(log) ==
    \/ \E w \in 1..Len(watchers) :
            /\ log.blockNumber > watchers[w].startBlock
            /\ watchers[w].delivered[log.eventName]
                    < IndexIn(WatchedLogs(w, log.eventName), log)
    \/ \E scan \in scans :
            /\ log.blockNumber >= scan.fromBlock
            /\ log.blockNumber <= scan.toBlock
            /\ scan.position < IndexIn(RangeLogs(scan.fromBlock, scan.toBlock), log)
    \/ lastProcessedBlock < log.blockNumber

\* C11: a fund movement whose handling failed is not dropped: as long as the
\* release of an InvoiceCompleted entry, or the refund an InvoiceCancelled entry
\* asks for, is not recorded as done, a further handling of that entry is
\* still to come (entries of the blocks mined after the listener started).
C11_FailedMovementStaysPending ==
    \A n \in 1..Len(logs) :
        /\ logs[n].eventName \in {"InvoiceCompleted", "InvoiceCancelled"}
        /\ logs[n].blockNumber <= blockNumber
        /\ Len(watchers) > 0
        /\ logs[n].blockNumber > watchers[1].startBlock
        => Resolved(logs[n]) \/ Pending(logs[n])

\* C12: no two handlers acting on the same invoice are in progress at the
\* same time.
C12_OneHandlerPerInvoice ==
    \A a, b \in calls : a # b => a.log.invoiceId # b.log.invoiceId

\* C13: no transfer is issued unless a sufficiency check (of the gas balance
\* or of the balance in the invoice's asset) was passed earlier in the same
\* invocation of the handler.
C13_CheckBeforeTransfer ==
    [][transfers' # transfers => \E call \in calls \ calls' : call.checks # {}]_vars

\* C16: a release is recorded as done only when the provider has answered
\* SUCCESS to a receiver transfer and to a platform-fee transfer of the
\* invoice, and a refund only when it has answered SUCCESS to a refund
\* transfer of the invoice.
C16_DoneOnlyOnSuccess ==
    \A invoiceId \in Invoices :
        /\ Recorded(invoiceId, "released") > 0 =>
                \A type \in {"invoice_payment", "platform_fee"} :
                    \E t \in BagToSet(transfers) :
                        t.invoiceId = invoiceId /\ t.type = type /\ t.status = "SUCCESS"
        /\ Recorded(invoiceId, "refunded") > 0 =>
                \E t \in BagToSet(transfers) :
                    t.invoiceId = invoiceId /\ t.type = "refund" /\ t.status = "SUCCESS"

\* C20: at most one custody record exists per invoice: however often
\* InvoiceFunded is handled for an invoice, its hold is recorded once.
C20_OneHoldPerInvoice ==
    \A invoiceId \in Invoices : Recorded(invoiceId, "held") <= 1
\* C14: after a restart the engine resumes from the last block it had fully
\* processed, so the blocks mined while it was not running are scanned too:
\* while the engine listens, every InvoiceFunded entry in a block at or
\* before the cursor has had its hold recorded.  (Checked while no call
\* fails, so that a scanned entry is a handled one.)
C14_RestartLeavesNoGap ==
    isListening =>
        \A n \in 1..Len(logs) :
            /\ logs[n].eventName = "InvoiceFunded"
            /\ logs[n].blockNumber <= lastProcessedBlock
            => Recorded(logs[n].invoiceId, "held") > 0

\* C19: once shutdown has called stop(), the engine begins nothing: as long
\* as it is not started again, no scan is begun or continued, no watcher
\* hands over a log, and no handler transfers or records anything.
C19_NothingBeginsAfterStop ==
    [][~isListening /\ ~isListening'
            => UNCHANGED <<scans, calls, watchers, transfers, custodyLog,
                           lastProcessedBlock>>]_vars

\* the engine has recorded a hold and was shut down; the invoice was then
\* completed on chain in a mined block, and nothing was released
C19_Witness ==
    /\ ~isListening
    /\ \E n \in 1..Len(logs) :
            /\ logs[n].eventName = "InvoiceCompleted"
            /\ logs[n].blockNumber <= blockNumber
            /\ Recorded(logs[n].invoiceId, "held") > 0
            /\ Issued(logs[n].invoiceId, "invoice_payment") = 0

C17_AtMostNQueries ==
    /\ poll.queries <= poll.requested
    /\ poll.state = "returned" => poll.status \in {"SUCCESS", "FAILED"}
    /\ poll.state = "timeout" => poll.attempts = poll.requested

\* C18: handleWebhook is invoked for a request only if its signature header
\* is present and equals the HMAC-SHA256 of the body as it was sent; every
\* other request is answered 401 and is not processed.
C18_ProcessedOnlyIfSigned ==
    webhook.state = "answered" =>
        LET signed == /\ webhook.signature.hexLength > 0
                      /\ webhook.signature = Hmac(webhook.body)
        IN  /\ webhook.processed => signed
            /\ ~signed => webhook.code = 401 /\ ~webhook.processed

\* C21: handling InvoiceCancelled for an invoice that was never funded does
\* nothing in custody: such an invoice has no transfer issued on its behalf
\* and no custody record, however often its cancellation is handled.
C21_UnfundedCancellationMovesNothing ==
    \A invoiceId \in Invoices :
        agreements[invoiceId].fundedAt = 0 =>
            /\ \A t \in BagToSet(transfers) : t.invoiceId # invoiceId
            /\ \A status \in {"held", "released", "refunded"} :
                    Recorded(invoiceId, status) = 0

\* a payment was made but the invoice never funded; it is cancelled, and the
\* watcher and a scan have both handled its InvoiceCancelled entry
C21_Witness ==
    /\ Len(agreements) > 0
    /\ agreements[1].status = "Cancelled"
    /\ agreements[1].fundedAt = 0
    /\ agreements[1].paidAmount > 0
    /\ Len(watchers) > 0
    /\ watchers[1].delivered["InvoiceCancelled"] = 1
    /\ lastProcessedBlock > 0
    /\ \E n \in 1..Len(logs) :
            /\ logs[n].eventName = "InvoiceCancelled"
            /\ logs[n].blockNumber > watchers[1].startBlock
            /\ logs[n].blockNumber <= lastProcessedBlock

\* C22: the status of an invoice is final once it is Completed or Cancelled:
\* no call of the registry, by any caller, changes it afterwards.
C22_FinalStatusStays ==
    [][\A invoiceId \in Invoices :
            agreements[invoiceId].status \in {"Completed", "Cancelled"}
            => agreements'[invoiceId].status = agreements[invoiceId].status]_vars

\* C23: the escrow steps are taken only from the status they belong to: a
\* payment is recorded and an invoice becomes Funded only from Pending or
\* PartiallyPaid, it becomes Delivered only from Funded, and delivery is
\* confirmed only from Delivered, which completes the invoice; so none of
\* these calls has an effect in any other status.
C23_EscrowStepsInOrder ==
    [][\A invoiceId \in Invoices :
            LET old == agreements[invoiceId]
                new == agreements'[invoiceId]
            IN  /\ \/ new.paidAmount > old.paidAmount
                   \/ new.status = "Funded" /\ old.status # "Funded"
                   => old.status \in {"Pending", "PartiallyPaid"}
                /\ new.status = "Delivered" /\ old.status # "Delivered"
                   => old.status = "Funded"
                /\ Emitted(invoiceId, "DeliveryConfirmed")'
                        > Emitted(invoiceId, "DeliveryConfirmed")
                   => old.status = "Delivered" /\ new.status = "Completed"]_vars

\* an invoice has gone all the way: funded, delivered, confirmed, Completed
C23_Witness ==
    \E invoiceId \in Invoices :
        /\ agreements[invoiceId].status = "Completed"
        /\ Emitted(invoiceId, "InvoiceFunded") = 1
        /\ Emitted(invoiceId, "DeliverySubmitted") = 1
        /\ Emitted(invoiceId, "DeliveryConfirmed") = 1

\* C24: cancelInvoice succeeds only for a Pending invoice on which no payment
\* has been recorded: a step that emits InvoiceCancelled starts from the
\* status Pending with paidAmount 0.
C24_CancelOnlyPending ==
    [][\A invoiceId \in Invoices :
            Emitted(invoiceId, "InvoiceCancelled")' > Emitted(invoiceId, "InvoiceCancelled")
            => /\ agreements[invoiceId].status = "Pending"
               /\ agreements[invoiceId].paidAmount = 0]_vars

C26_PausedFreezesInvoices ==
    /\ [][paused => /\ agreements' = agreements
                    /\ disputes' = disputes
                    /\ invoiceToDispute' = invoiceToDispute
                    /\ logs' = logs
                    /\ UNCHANGED indexVars]_vars
    /\ [](~paused /\ blockNumber < MaxBlock =>
            /\ Len(agreements) < MaxInvoices =>
                    ENABLED createInvoice("issuer", "payer", "receiver", 1000,
                                          NativeToken, TRUE)
            /\ \A invoiceId \in Invoices :
                    LET agreement == agreements[invoiceId]
                    IN  /\ agreement.status = "Pending" =>
                            /\ ENABLED markAsFunded(agreement.payer, invoiceId,
                                                    agreement.totalAmount)
                            /\ ENABLED cancelInvoice(agreement.issuer, invoiceId)
                        /\ agreement.status = "Funded" =>
                            ENABLED submitDelivery(agreement.issuer, invoiceId)
                        /\ agreement.status = "Delivered" =>
                            ENABLED confirmDelivery(agreement.receiver, invoiceId)
                        /\ agreement.status \in {"Funded", "Delivered"}
                                /\ invoiceToDispute[invoiceId] = 0 =>
                            ENABLED raiseDispute(agreement.payer, invoiceId))

\* the registry is paused while an invoice is Funded and the block has room
C26_Witness ==
    /\ paused
    /\ blockNumber < MaxBlock
    /\ \E invoiceId \in Invoices : agreements[invoiceId].status = "Funded"

\* C27: paidAmount never exceeds totalAmount, and a step that records a
\* payment leaves the invoice Funded exactly when paidAmount has reached
\* totalAmount and PartiallyPaid otherwise.
C27_PaidWithinTotal ==
    /\ [](\A invoiceId \in Invoices :
            agreements[invoiceId].paidAmount <= agreements[invoiceId].totalAmount)
    /\ [][\A invoiceId \in Invoices :
            LET new == agreements'[invoiceId]
            IN  new.paidAmount > agreements[invoiceId].paidAmount
                => new.status = IF new.paidAmount = new.totalAmount
                                    THEN "Funded" ELSE "PartiallyPaid"]_vars

\* two partial payments have been recorded and the invoice is not yet funded
C27_Witness ==
    \E invoiceId \in Invoices :
        /\ agreements[invoiceId].status = "PartiallyPaid"
        /\ agreements[invoiceId].paidAmount = 2 * PartialAmount
        /\ agreements[invoiceId].fundedAt = 0

\* C28: the platform fee is at most 1000 basis points in every state, and
\* every InvoiceCompleted entry carries the floor of
\* totalAmount * platformFee / 10000 for the fee in force when it is
\* emitted: 25 for an amount of 1000 at the default fee.
C28_CompletedCarriesFee ==
    /\ [](platformFee <= MaxPlatformFee)
    /\ [][\A n \in (Len(logs) + 1)..Len(logs') :
            logs'[n].eventName = "InvoiceCompleted" =>
                LET product == agreements[logs'[n].invoiceId].totalAmount * platformFee
                    fee == logs'[n].platformFeeCollected
                IN  /\ fee * BasisPoints <= product
                    /\ product < (fee + 1) * BasisPoints
                    /\ product = 1000 * DefaultPlatformFee => fee = 25]_vars

\* an invoice was completed under a fee of 33 basis points, which does not
\* divide evenly: the entry carries 3
C28_Witness ==
    \E n \in 1..Len(logs) :
        /\ logs[n].eventName = "InvoiceCompleted"
        /\ logs[n].platformFeeCollected = 3
        /\ platformFee = 33

\* ------------------------------------------------- the two modes of payment

\* One invoice has been created in the block being built. requiresDelivery is the mode its
\* issuer asked for, the argument Contract/README.md gives createInvoice;
\* InvoiceEscrow.createInvoice takes no such argument and stores nothing of
\* it, so the field is carried along only to say which invoice was meant to
\* be paid directly.
InitModes ==
    /\ \E token \in Tokens, requiresDelivery \in BOOLEAN :
        /\ agreements = <<[issuer |-> "issuer", payer |-> "payer", receiver |-> "receiver",
                           totalAmount |-> 1000, paidAmount |-> 0, tokenAddress |-> token,
                           status |-> "Pending", allowPartialPayment |-> TRUE,
                           minimumPartialAmount |-> PartialAmount, fundedAt |-> 0,
                           requiresDelivery |-> requiresDelivery]>>
        /\ supportedTokens = {NativeToken, token}
    /\ disputes = <<>>
    /\ invoiceToDispute = [i \in 1..MaxInvoices |-> 0]
    /\ platformFee = DefaultPlatformFee
    /\ paused = FALSE
    /\ issuerInvoices = Listed("issuer")
    /\ payerInvoices = Listed("payer")
    /\ receiverInvoices = Listed("receiver")
    /\ blockNumber = 0
    /\ logs = <<[eventName |-> "InvoiceCreated", invoiceId |-> 1, blockNumber |-> 1,
                 logIndex |-> 0, platformFeeCollected |-> 0]>>
    /\ transfers = EmptyBag
    /\ custodyLog = EmptyBag
    /\ isListening = FALSE
    /\ lastProcessedBlock = 0
    /\ watchers = <<>>
    /\ scans = {}
    /\ calls = {}
    /\ poll = [state |-> "idle"]
    /\ webhook = [state |-> "idle"]
    /\ page = [state |-> "idle"]

\* the payment of the invoice and what its parties may do next
NextModes ==
    \/ \E sender \in Accounts, invoiceId \in 1..MaxInvoices :
            \E amount \in {PartialAmount,
                           IF invoiceExists(invoiceId)
                               THEN agreements[invoiceId].totalAmount
                                        - agreements[invoiceId].paidAmount
                               ELSE PartialAmount} :
                /\ markAsFunded(sender, invoiceId, amount)
                /\ UNCHANGED backendVars
    \/ \E sender \in Accounts, invoiceId \in 1..MaxInvoices :
            submitDelivery(sender, invoiceId) /\ UNCHANGED backendVars
    \/ \E sender \in Accounts, invoiceId \in 1..MaxInvoices :
            confirmDelivery(sender, invoiceId) /\ UNCHANGED backendVars
    \/ \E sender \in Accounts, invoiceId \in 1..MaxInvoices :
            cancelInvoice(sender, invoiceId) /\ UNCHANGED backendVars
    \/ \E sender \in Accounts, invoiceId \in 1..MaxInvoices :
            raiseDispute(sender, invoiceId) /\ UNCHANGED backendVars
    \/ Chain

SpecModes == InitModes /\ [][NextModes]_vars

\* C29: the markAsFunded that records the whole amount of an invoice asked
\* for in direct mode (requiresDelivery = false) completes it in the same
\* transaction, emitting InvoiceFunded and then InvoiceCompleted; the one of
\* an invoice in escrow mode leaves it Funded and emits no InvoiceCompleted.
C29_DirectModeCompletesOnPayment ==
    [][\A invoiceId \in Invoices :
            (/\ agreements[invoiceId].paidAmount < agreements[invoiceId].totalAmount
             /\ agreements'[invoiceId].paidAmount = agreements[invoiceId].totalAmount)
            => IF agreements[invoiceId].requiresDelivery
                   THEN /\ agreements'[invoiceId].status = "Funded"
                        /\ Emitted(invoiceId, "InvoiceFunded")'
                                = Emitted(invoiceId, "InvoiceFunded") + 1
                        /\ Emitted(invoiceId, "InvoiceCompleted")' = 0
                   ELSE /\ agreements'[invoiceId].status = "Completed"
                        /\ Len(logs') = Len(logs) + 2
                        /\ logs'[Len(logs) + 1].eventName = "InvoiceFunded"
                        /\ logs'[Len(logs) + 2].eventName = "InvoiceCompleted"]_vars

\* ------------------------------------------------ the lists of the parties

\* how many invoices are created
MaxListed == 3
\* the width of a uint in bits (256 in the contract)
UintBits == 3
UintMax == 2^UintBits - 1

\* _paginate: offset + limit is checked arithmetic (pragma ^0.8.28, no
\* unchecked block) and reverts when it exceeds the width; the loop copies
\* allInvoices[offset + i] for i from 0 to resultLength - 1
paginate(allInvoices, offset, limit) ==
    LET total == Len(allInvoices)
    IN  IF offset >= total
            THEN [reverted |-> FALSE, result |-> <<>>, total |-> total]
        ELSE IF offset + limit > UintMax
            THEN [reverted |-> TRUE]
        ELSE LET end == IF offset + limit > total THEN total ELSE offset + limit
                 resultLength == end - offset
             IN  [reverted |-> FALSE,
                  result |-> [i \in 1..resultLength |-> allInvoices[offset + (i - 1) + 1]],
                  total |-> total]

\* the call and what it returned to the caller
Asked(getter, account, offset, limit, returned) ==
    [state |-> "answered", getter |-> getter, account |-> account,
     offset |-> offset, limit |-> limit, returned |-> returned]

getIssuerInvoices(issuer, offset, limit) ==
    LET allInvoices == issuerInvoices[issuer]
    IN  page' = Asked("getIssuerInvoices", issuer, offset, limit,
                      paginate(allInvoices, offset, limit))

getPayerInvoices(payer, offset, limit) ==
    LET allInvoices == payerInvoices[payer]
    IN  page' = Asked("getPayerInvoices", payer, offset, limit,
                      paginate(allInvoices, offset, limit))

getReceiverInvoices(receiver, offset, limit) ==
    LET allInvoices == receiverInvoices[receiver]
    IN  page' = Asked("getReceiverInvoices", receiver, offset, limit,
                      paginate(allInvoices, offset, limit))

\* the offsets and limits asked with: within the list, at its end and beyond
\* it, and the largest uint as the limit of a caller who wants all the rest
Offsets == 0..MaxListed
Limits == {0, 1, MaxListed, UintMax}

\* Invoices are created between accounts that take more than one role, and
\* the lists are read in between.
NextLists ==
    \/ \E sender \in {"issuer", "payer"}, receiver \in {"receiver", "payer"} :
            /\ Len(agreements) < MaxListed
            /\ createInvoice(sender, "payer", receiver, 1000, NativeToken, TRUE)
            /\ UNCHANGED backendVars
    \/ \E issuer \in Accounts, offset \in Offsets, limit \in Limits :
            /\ getIssuerInvoices(issuer, offset, limit)
            /\ UNCHANGED <<registryVars, transfers, custodyLog, isListening,
                           lastProcessedBlock, watchers, scans, calls, poll, webhook>>
    \/ \E payer \in Accounts, offset \in Offsets, limit \in Limits :
            /\ getPayerInvoices(payer, offset, limit)
            /\ UNCHANGED <<registryVars, transfers, custodyLog, isListening,
                           lastProcessedBlock, watchers, scans, calls, poll, webhook>>
    \/ \E receiver \in Accounts, offset \in Offsets, limit \in Limits :
            /\ getReceiverInvoices(receiver, offset, limit)
            /\ UNCHANGED <<registryVars, transfers, custodyLog, isListening,
                           lastProcessedBlock, watchers, scans, calls, poll, webhook>>

SpecLists == Init /\ [][NextLists]_vars

\* C30: getIssuerInvoices, getPayerInvoices and getReceiverInvoices return
\* the ids at positions offset .. min(offset + limit, total) - 1 (counted
\* from 0) of the account's list, in creation order, with total; an offset
\* at or beyond total returns an empty page; and every created invoice is
\* exactly once in the list of its issuer, of its payer and of its receiver.
C30_PageOfThePartysList ==
    /\ [](LET InvoicesOf(role, account) ==
                  SelectSeq([invoiceId \in 1..Len(agreements) |-> invoiceId],
                            LAMBDA invoiceId : agreements[invoiceId][role] = account)
          IN  \A account \in Accounts :
                /\ issuerInvoices[account] = InvoicesOf("issuer", account)
                /\ payerInvoices[account] = InvoicesOf("payer", account)
                /\ receiverInvoices[account] = InvoicesOf("receiver", account))
    /\ [][page' # page =>
            LET role == CASE page'.getter = "getIssuerInvoices" -> "issuer"
                          [] page'.getter = "getPayerInvoices" -> "payer"
                          [] page'.getter = "getReceiverInvoices" -> "receiver"
                list == SelectSeq([invoiceId \in 1..Len(agreements) |-> invoiceId],
                                  LAMBDA invoiceId :
                                      agreements[invoiceId][role] = page'.account)
                last == IF page'.offset + page'.limit < Len(list)
                            THEN page'.offset + page'.limit
                            ELSE Len(list)
            IN  /\ ~page'.returned.reverted
                /\ page'.returned.total = Len(list)
                /\ page'.returned.result = SubSeq(list, page'.offset + 1, last)
                /\ page'.offset >= Len(list) => page'.returned.result = <<>>]_vars

\* the sum of the amounts of these transfers, each as often as the provider
\* answered it
RECURSIVE TransferredOut(_)
TransferredOut(sent) ==
    IF sent = {} THEN 0
    ELSE LET t == CHOOSE one \in sent : TRUE
         IN  t.amount * CopiesIn(t, transfers) + TransferredOut(sent \ {t})

\* C31: for every invoice, the amounts transferred out of custody on its
\* behalf (receiver payment, platform fee and refund) never add up to more
\* than the amount held for it, which is its total once it was funded and
\* nothing before; and no transfer with the same reference (invoice-<id>-
\* payment, -fee or -refund) is made twice.
C31_PaidOutWithinHeld ==
    \A invoiceId \in Invoices :
        /\ TransferredOut({t \in BagToSet(transfers) : t.invoiceId = invoiceId})
                <= IF agreements[invoiceId].fundedAt > 0
                       THEN agreements[invoiceId].totalAmount ELSE 0
        /\ \A type \in {"invoice_payment", "platform_fee", "refund"} :
                Issued(invoiceId, type) <= 1

\* C32: on the chain InvoiceCompleted is emitted at most once for an invoice,
\* and no invoice has both an InvoiceCompleted and an InvoiceCancelled entry,
\* whatever calls are made (partial payments, disputes, partial refunds and
\* payments after them included).
C32_CompletedOnceNeverCancelled ==
    \A invoiceId \in Invoices :
        /\ Emitted(invoiceId, "InvoiceCompleted") <= 1
        /\ ~(/\ Emitted(invoiceId, "InvoiceCompleted") > 0
             /\ Emitted(invoiceId, "InvoiceCancelled") > 0)

\* an invoice was funded, disputed, resolved for the payer with a part
\* refunded, funded again, delivered and completed
C32_Witness ==
    \E invoiceId \in Invoices :
        /\ invoiceToDispute[invoiceId] > 0
        /\ disputes[invoiceToDispute[invoiceId]].status = "ResolvedForPayer"
        /\ Emitted(invoiceId, "InvoiceFunded") = 2
        /\ Emitted(invoiceId, "InvoiceCompleted") = 1
        /\ agreements[invoiceId].status = "Completed"

\* C33: a dispute is resolved at most once: once resolveDispute has succeeded
\* on it (its invoice is no longer Disputed), resolveDispute on the same
\* dispute reverts for every caller, every value of DisputeStatus passed as
\* the resolution and every refund; and no invoice ever has two disputes.
C33_DisputeResolvedOnce ==
    /\ \A disputeId \in 1..Len(disputes) :
            agreements[disputes[disputeId].invoiceId].status # "Disputed" =>
                \A sender \in Accounts, refundAmount \in {0, PartialAmount},
                   resolution \in {"None", "Raised", "UnderReview", "ResolvedForIssuer",
                                   "ResolvedForPayer", "Cancelled"} :
                    ~ENABLED resolveDispute(sender, disputeId, resolution, refundAmount)
    /\ \A first, second \in 1..Len(disputes) :
            disputes[first].invoiceId = disputes[second].invoiceId => first = second

\* ------------------------------------------------ starting and stopping
\* how many times start() may succeed
MaxRestarts == 2

\* The listener is started and stopped at will while blocks are mined and
\* nothing is emitted: the subscriptions made by start() stay, since stop()
\* calls none of the unwatch functions start() was given, and each block
\* watcher goes on calling processBlockEvents.
NextStarts ==
    \/ /\ Len(watchers) < MaxRestarts
       /\ start
       /\ UNCHANGED transfers /\ UNCHANGED <<registryVars, requestVars>>
    \/ /\ Len(watchers) < MaxRestarts
       /\ startFails
       /\ UNCHANGED transfers /\ UNCHANGED <<registryVars, requestVars>>
    \/ stop /\ UNCHANGED transfers /\ UNCHANGED <<registryVars, requestVars>>
    \/ \E w \in 1..MaxRestarts :
            /\ onBlockNumber(w)
            /\ UNCHANGED transfers /\ UNCHANGED <<registryVars, requestVars>>
    \/ \E scan \in scans :
            scanFetchFails(scan) /\ UNCHANGED <<registryVars, requestVars>>
    \/ \E scan \in scans :
            scanReturns(scan) /\ UNCHANGED <<registryVars, requestVars>>
    \/ Chain

SpecStarts == Init /\ [][NextStarts]_vars

\* C34: over any sequence of start() and stop() at most one block watcher
\* and one watcher per event kind are registered at a time (one entry of
\* watchers stands for the seven subscriptions of one start()); start()
\* while the listener runs registers nothing; and the listener is marked
\* running only after a start() that succeeded.
C34_OneWatcherAtATime ==
    /\ [](Len(watchers) <= 1)
    /\ [](isListening => Len(watchers) > 0)
    /\ [][isListening => Len(watchers') = Len(watchers)]_vars

\* C35: pollTransactionStatus returns only when a status query reported
\* SUCCESS or FAILED, and it returns the status of that query; a query that
\* reported PENDING or failed costs one attempt and the polling goes on, so
\* that PENDING is never returned.
C35_ReturnsOnlyFinalStatus ==
    /\ [](poll.state = "returned" =>
            /\ poll.answer \in {"SUCCESS", "FAILED"}
            /\ poll.status = poll.answer)
    /\ [][(/\ poll.state = "polling"
           /\ poll.attempts < poll.maxAttempts
           /\ poll' # poll
           /\ poll'.answer \in {"PENDING", "timeout"})
          => /\ poll'.state = "polling"
             /\ poll'.attempts = poll.attempts + 1]_vars

\* FAILED was returned after attempts that a PENDING status or a failed
\* query had used up
C35_Witness ==
    /\ poll.state = "returned"
    /\ poll.status = "FAILED"
    /\ poll.attempts = 2

\* C36: a request to POST /api/webhooks/blockradar whose signature verifies
\* (the header holds the HMAC of the body as it was sent) is always answered
\* 200, also when handling the event throws; 401 is answered only when the
\* signature is missing or invalid, and no other code is answered.
C36_SignedAlwaysAnswered200 ==
    webhook.state = "answered" /\ webhook.route = "blockradar" =>
        LET signed == /\ webhook.signature.hexLength > 0
                      /\ webhook.signature = Hmac(webhook.body)
        IN  /\ signed => webhook.code = 200 /\ webhook.processed
            /\ webhook.code = 401 => ~signed
            /\ webhook.code \in {200, 401}

====
